---- MODULE Spec2Model ----
(***************************************************************************)
(* Verification model of the shared_libs data-access wrappers:             *)
(*   core_opensearch  : chunking, BulkProcessor, bulk_index retry,         *)
(*                      OpenSearchStats, document operations,              *)
(*                      wrap_opensearch_error                              *)
(*   core_postgres_db : chunk_list, retry_on_deadlock, transactions,       *)
(*                      QueryStats, create, WHERE-clause builders          *)
(* Every subsystem has its own variables, its own Init/Next and its own    *)
(* specification; the variables of the other subsystems stay idle.         *)
(***************************************************************************)
EXTENDS Integers, Sequences, FiniteSets, TLC

VARIABLES
    \* ---- chunk_documents / chunk_list ----
    ck_fn,        \* which function is called
    ck_data,      \* the list argument
    ck_size,      \* the chunk_size argument
    ck_out,       \* the returned list of chunks
    ck_pc,        \* "call" | "returned" | "raised"
    \* ---- retry_on_deadlock ----
    rd_pkg,       \* "core_postgres_db" | "core_db": which decorator
    rd_max,       \* max_retries
    rd_attempt,   \* the loop variable `attempt`
    rd_hist,      \* outcome of every invocation of the wrapped function
    rd_pc,        \* "loop" | "returned" | "raised"
    rd_raised,    \* what the wrapper raised to its caller
    \* ---- transaction() / atransaction() ----
    db,           \* the committed rows of the table: key -> value or NoRow
    conn,         \* the scope's connection: [active, pending, log]
    tx_client,    \* "transaction" (sync) | "atransaction" (async)
    tx_pc,        \* "idle" | "body" | "done"
    tx_opened,    \* the scope reached its yield
    tx_pre,       \* the committed rows when the scope was entered
    tx_writes,    \* client create/update/delete calls made inside the scope
    tx_body,      \* how the body ended: NoErr (clean) or the exception raised
    tx_seen,      \* what the caller of the with-statement sees
    \* ---- BulkProcessor ----
    bp_cfg,          \* [op, max_retries, batch_size, refresh_after_batch, shape]
    bp_pc,           \* "idle" | "retry_loop" | "batch_return" | "returned" | "raised"
    bp_ndocs,        \* len(documents) of the call
    bp_batches,      \* the list `batches`
    bp_i,            \* index of the batch being processed (1-based)
    bp_batch,        \* the local `batch` of _process_batch_with_retry
    bp_attempt,      \* the loop variable `attempt`
    bp_batch_result, \* the local `batch_result`
    bp_result,       \* the `result` of _process_batches
    bp_stats,        \* self.stats
    bp_refreshes,    \* calls of client.indices.refresh
    bp_submits,      \* driver calls made for the current batch
    bp_sub,          \* actions of the last driver call
    bp_resp,         \* what the last driver call answered
    bp_want,         \* after an answer with retryable record errors only and attempts left: the failed actions
    bp_only_retryable,     \* every answer for this batch: only retryable record errors
    bp_nonretryable_raise, \* some driver call for this batch raised a non-transient error
    bp_calls,        \* process_bulk_* calls started on this processor
    bp_resets,       \* reset_stats calls made
    bp_raised,       \* a driver submission of the current call raised
    \* SyncOpenSearchDB.bulk_index / AsyncOpenSearchDB.bulk_index
    os_cls,          \* "sync" (SyncOpenSearchDB) or "async" (AsyncOpenSearchDB)
    os_pc,           \* "idle", "retry", "batch_return", "returned", "raised"
    os_batch_size,   \* batch_size of the call
    os_batches,      \* the chunks of the documents
    os_i,            \* position of the current batch
    os_attempt,      \* `attempt` of retry_with_backoff's loop
    os_calls,        \* driver bulk calls executed for the current batch
    os_resp,         \* the driver's last answer
    os_batch_result, \* `result` of _process_bulk_batch
    os_result,       \* `result` of bulk_index
    \* ---- QueryStats / OpenSearchStats ----
    pm_cls,          \* "core_postgres_db" | "core_db" (QueryStats) | "opensearch" (OpenSearchStats)
    pm_stats,        \* self._stats: key -> metrics, or Absent
    pm_now,          \* datetime.now(), in hours
    pm_last_cleanup, \* self._last_cleanup
    pm_hist,         \* per key: what was recorded since its entry was created
    pm_evicted,      \* the entries the latest cleanup removed, with their last activity
    pm_snap,         \* outcome of the latest snapshot() since the last recording
    pm_n,            \* recordings made one by one
    pm_loop,         \* the recording loop: iterations left and its sample
    pm_resets,       \* reset() calls made
    pm_lock,         \* self._lock: [owner, depth]
    th_pc,           \* per thread: "idle" | "locked" | "loaded"
    th_key,          \* per thread: the key of its current record_read
    th_tmp,          \* per thread: the count it loaded
    th_left,         \* per thread: record_read calls still to make
    th_done,         \* per key: record_read calls completed by the threads
    \* ---- SyncPostgresDB.create ----
    cr_rows,         \* per table: the unique emails of its rows
    cr_lc,           \* the server's lc_messages
    cr_out,          \* the latest create call: its arguments and its outcome
    \* ---- wrap_opensearch_error ----
    wr_error,        \* the driver's exception
    wr_context,      \* the context argument
    wr_out,          \* what wrap_opensearch_error returned or raised
    \* ---- index_document / get_document / delete_document ----
    ds_cls,          \* "sync" | "async": which client
    ds_store,        \* the index: per document id its _source and _version
    ds_exists,       \* whether the index has been created
    ds_written,      \* per id: the document last handed to index_document
    ds_n,            \* index_document calls made
    ds_out,          \* the latest call: its arguments, the driver's answer, its outcome
    \* ---- WhereClauseBuilder / build_where_clause ----
    wb_pkg,          \* "core_postgres_db" | "core_db": which builder
    wb_conditions,   \* the conditions mapping, as its items in order
    wb_out,          \* the returned list of clauses, or the exception
    \* ---- SyncPostgresDB.delete / SyncCRUD.delete ----
    dl_pkg,          \* "core_postgres_db" | "core_db": which class
    dl_rows,         \* the rows of the table
    dl_conditions,   \* the conditions mapping, as its items in order
    dl_out,          \* the latest delete call: its statement and its outcome
    \* ---- _get_table: the table metadata cache ----
    tc_cls,          \* "base_operations" | "async_operations" | "core_db"
    tc_md,           \* self.metadata: the table registered under the name, or 0
    tc_heap,         \* the Table objects created so far: their columns
    tc_cache,        \* self._table_cache[name]: a Table object, or 0
    tc_reflected,    \* name in self._reflected_tables (async)
    tc_prev,         \* the columns of the entry the latest store overwrote
    tc_pc,           \* per caller: "idle" | "construct" | "reflect" | "store" | "return"
    tc_tab,          \* per caller: its local `table`
    tc_mine,         \* per caller: its Table(...) call registered the table
    tc_ret,          \* per caller: what its latest _get_table returned or raised
    tc_left,         \* per caller: _get_table calls still to make
    \* ---- ConnectionManager ----
    cm_kind,         \* "sync" | "async": get_sync_engine or get_async_engine
    cm_engines,      \* _sync_engines / _async_engines: per config key an engine
    cm_created,      \* per config key: engines the driver constructed
    cm_given,        \* per config key: the engines returned to callers
    cm_overlap,      \* some call started while another was in progress
    cm_key,          \* per thread: the _config_key of its manager
    cm_pc,           \* per thread: "idle" | "create" | "store" | "return"
    cm_tmp,          \* per thread: the engine it constructed
    cm_ret,          \* per thread: what its latest call returned or raised
    cm_left          \* per thread: calls still to make

ckVars == <<ck_fn, ck_data, ck_size, ck_out, ck_pc>>
rdVars == <<rd_pkg, rd_max, rd_attempt, rd_hist, rd_pc, rd_raised>>
txVars == <<db, conn, tx_client, tx_pc, tx_opened, tx_pre, tx_writes, tx_body, tx_seen>>
bpVars == <<bp_cfg, bp_pc, bp_ndocs, bp_batches, bp_i, bp_batch, bp_attempt,
           bp_batch_result, bp_result, bp_stats, bp_refreshes, bp_submits,
           bp_sub, bp_resp, bp_want, bp_only_retryable, bp_nonretryable_raise,
           bp_calls, bp_resets, bp_raised>>
osVars == <<os_cls, os_pc, os_batch_size, os_batches, os_i, os_attempt, os_calls,
           os_resp, os_batch_result, os_result>>
pmVars == <<pm_cls, pm_stats, pm_now, pm_last_cleanup, pm_hist, pm_evicted, pm_snap,
           pm_n, pm_loop, pm_resets>>
thVars == <<pm_lock, th_pc, th_key, th_tmp, th_left, th_done>>
crVars == <<cr_rows, cr_lc, cr_out>>
\* the client calls modelled one by one
wrVars == <<wr_error, wr_context, wr_out>>
dsVars == <<ds_cls, ds_store, ds_exists, ds_written, ds_n, ds_out>>
wbVars == <<wb_pkg, wb_conditions, wb_out>>
dlVars == <<dl_pkg, dl_rows, dl_conditions, dl_out>>
tcVars == <<tc_cls, tc_md, tc_heap, tc_cache, tc_reflected, tc_prev, tc_pc, tc_tab,
           tc_mine, tc_ret, tc_left>>
cmVars == <<cm_kind, cm_engines, cm_created, cm_given, cm_overlap, cm_key, cm_pc,
           cm_tmp, cm_ret, cm_left>>
pgVars == <<dlVars, tcVars, cmVars>>
apiVars == <<crVars, wrVars, dsVars, wbVars, pgVars>>
coreVars == <<ckVars, rdVars, txVars, bpVars, osVars, pmVars, thVars>>
vars == <<coreVars, apiVars>>

\* the variables of the other subsystems, left alone by a subsystem's actions
notCk == <<rdVars, txVars, bpVars, osVars, pmVars, thVars, apiVars>>
notRd == <<ckVars, txVars, bpVars, osVars, pmVars, thVars, apiVars>>
notTx == <<ckVars, rdVars, bpVars, osVars, pmVars, thVars, apiVars>>
notBp == <<ckVars, rdVars, txVars, osVars, pmVars, thVars, apiVars>>
notOs == <<ckVars, rdVars, txVars, bpVars, pmVars, thVars, apiVars>>
notPm == <<ckVars, rdVars, txVars, bpVars, osVars, thVars, apiVars>>
notTh == <<ckVars, rdVars, txVars, bpVars, osVars, apiVars>>
notCr == <<coreVars, wrVars, dsVars, wbVars, pgVars>>
notWr == <<coreVars, crVars, dsVars, wbVars, pgVars>>
notDs == <<coreVars, crVars, wrVars, wbVars, pgVars>>
notWb == <<coreVars, crVars, wrVars, dsVars, pgVars>>
notDl == <<coreVars, crVars, wrVars, dsVars, wbVars, tcVars, cmVars>>
notTc == <<coreVars, crVars, wrVars, dsVars, wbVars, dlVars, cmVars>>
notCm == <<coreVars, crVars, wrVars, dsVars, wbVars, dlVars, tcVars>>

(***************************************************************************)
(* Bounds of the model                                                     *)
(***************************************************************************)
MaxLen == 4
MaxChunk == 3
MaxRetries == 3
MaxWrites == 2
MaxDocs == 2
MaxRecords == 1
MaxResets == 1
MaxCalls == 2
MaxIndexed == 2
MaxKeys == 2

(***************************************************************************)
(* Python strings as sequences of characters, so that str.lower() and the  *)
(* substring test `kw in s` are computed, not assumed.                     *)
(***************************************************************************)
UpperChars == <<"A","B","C","D","E","F","G","H","I","J","K","L","M","N","O","P","Q","R","S","T","U","V","W","X","Y","Z">>
LowerChars == <<"a","b","c","d","e","f","g","h","i","j","k","l","m","n","o","p","q","r","s","t","u","v","w","x","y","z">>

LowerOf ==
    [u \in {UpperChars[i] : i \in 1..Len(UpperChars)} |->
        LowerChars[CHOOSE i \in 1..Len(UpperChars) : UpperChars[i] = u]]

LowerChar(c) == IF c \in DOMAIN LowerOf THEN LowerOf[c] ELSE c

\* str.lower()
Lower(s) == SubSeq([i \in 1..Len(s) |-> LowerChar(s[i])], 1, Len(s))

\* `kw in s` on strings
StrIn(kw, s) ==
    \E t \in {s} :
        \E i \in 1..(Len(t) - Len(kw) + 1) : \A j \in 1..Len(kw) : t[i + j - 1] = kw[j]

\* any(kw in s for kw in kws)
AnyIn(kws, s) == \E t \in {s} : \E k \in 1..Len(kws) : StrIn(kws[k], t)

s_deadlock == <<"d","e","a","d","l","o","c","k">>
s_serialization == <<"s","e","r","i","a","l","i","z","a","t","i","o","n">>
s_could_not_serialize == <<"c","o","u","l","d"," ","n","o","t"," ","s","e","r","i","a","l","i","z","e">>
s_lock_conflict == <<"l","o","c","k"," ","c","o","n","f","l","i","c","t">>
s_try_again == <<"t","r","y"," ","a","g","a","i","n">>
s_retry == <<"r","e","t","r","y">>
s_timeout == <<"t","i","m","e","o","u","t">>
s_connection == <<"c","o","n","n","e","c","t","i","o","n">>
s_temporarily_unavailable == <<"t","e","m","p","o","r","a","r","i","l","y","_","u","n","a","v","a","i","l","a","b","l","e">>
s_cluster_block == <<"c","l","u","s","t","e","r","_","b","l","o","c","k">>
s_circuit_breaking == <<"c","i","r","c","u","i","t","_","b","r","e","a","k","i","n","g">>
s_429 == <<"4","2","9">>
s_503 == <<"5","0","3">>
s_version_conflict == <<"v","e","r","s","i","o","n","_","c","o","n","f","l","i","c","t">>
s_document_missing == <<"d","o","c","u","m","e","n","t","_","m","i","s","s","i","n","g">>
s_Deadlock_detected == <<"D","e","a","d","l","o","c","k"," ","d","e","t","e","c","t","e","d">>
s_could_not_serialize_access == <<"c","o","u","l","d"," ","n","o","t"," ","s","e","r","i","a","l","i","z","e"," ","a","c","c","e","s","s">>
s_Connection_refused == <<"C","o","n","n","e","c","t","i","o","n"," ","r","e","f","u","s","e","d">>
s_syntax_error == <<"s","y","n","t","a","x"," ","e","r","r","o","r">>
s_ConnectionTimeout == <<"C","o","n","n","e","c","t","i","o","n","T","i","m","e","o","u","t">>
s_mapper_parsing_exception == <<"m","a","p","p","e","r","_","p","a","r","s","i","n","g","_","e","x","c","e","p","t","i","o","n">>
s_version_conflict_engine_exception == <<"v","e","r","s","i","o","n","_","c","o","n","f","l","i","c","t","_","e","n","g","i","n","e","_","e","x","c","e","p","t","i","o","n">>

s_Transaction_error == <<"T","r","a","n","s","a","c","t","i","o","n"," ","e","r","r","o","r",":"," ">>
s_Transaction_failed == <<"T","r","a","n","s","a","c","t","i","o","n"," ","f","a","i","l","e","d",":"," ">>
s_Async_transaction_failed == <<"A","s","y","n","c"," ","t","r","a","n","s","a","c","t","i","o","n"," ","f","a","i","l","e","d",":"," ">>
s_duplicate_key == <<"d","u","p","l","i","c","a","t","e"," ","k","e","y">>
s_boom == <<"b","o","o","m">>

Min(a, b) == IF a < b THEN a ELSE b

\* Python slice s[lo:hi] with 0 <= lo (0-based, hi exclusive, clipped)
PySlice(s, lo, hi) == SubSeq(s, lo + 1, Min(hi, Len(s)))

\* list(range(0, n, step)) for step >= 1, as the ascending sequence of starts
PyRange(n, step) ==
    LET starts == {i \in 0..(n - 1) : i % step = 0}
    IN  [k \in 1..Cardinality(starts) |-> (k - 1) * step]

(***************************************************************************)
(* Chunking                                                                *)
(***************************************************************************)
Recs == {1, 2}

SeqsUpTo(S, n) == UNION {[1..k -> S] : k \in 0..n}

\* a plausible slip: only full chunks are produced, the ragged tail is lost
ChunkDocuments_dropTail(documents, chunk_size) ==
    [k \in 1..(Len(documents) \div chunk_size) |->
        PySlice(documents, (k - 1) * chunk_size, k * chunk_size)]

\* OpenSearchUtils.chunk_documents, for chunk_size > 0
ChunkDocuments(documents, chunk_size) ==
    LET r == PyRange(Len(documents), chunk_size)
    IN  [k \in 1..Len(r) |-> PySlice(documents, r[k], r[k] + chunk_size)]

\* core_postgres_db.utils.chunk_list, for chunk_size > 0
ChunkList(data, chunk_size) ==
    LET r == PyRange(Len(data), chunk_size)
    IN  [k \in 1..Len(r) |-> PySlice(data, r[k], r[k] + chunk_size)]

ChunkInit ==
    /\ ck_fn \in {"chunk_documents", "chunk_list"}
    /\ ck_data \in SeqsUpTo(Recs, MaxLen)
    /\ ck_size \in 0..MaxChunk
    /\ ck_out = <<>>
    /\ ck_pc = "call"

\* chunk_documents(documents, chunk_size): raises ValidationError on size <= 0
ChunkDocumentsCall ==
    /\ ck_pc = "call"
    /\ ck_fn = "chunk_documents"
    /\ IF ck_size <= 0
       THEN ck_pc' = "raised" /\ ck_out' = ck_out
       ELSE ck_pc' = "returned" /\ ck_out' = ChunkDocuments(ck_data, ck_size)
    /\ UNCHANGED <<ck_fn, ck_data, ck_size>>
    /\ UNCHANGED notCk

\* chunk_list(data, chunk_size): raises ValidationError on size <= 0
ChunkListCall ==
    /\ ck_pc = "call"
    /\ ck_fn = "chunk_list"
    /\ IF ck_size <= 0
       THEN ck_pc' = "raised" /\ ck_out' = ck_out
       ELSE ck_pc' = "returned" /\ ck_out' = ChunkList(ck_data, ck_size)
    /\ UNCHANGED <<ck_fn, ck_data, ck_size>>
    /\ UNCHANGED notCk

ChunkNext == ChunkDocumentsCall \/ ChunkListCall

ChunkIdle ==
    /\ ck_fn = "chunk_list"
    /\ ck_data = <<>>
    /\ ck_size = 0
    /\ ck_out = <<>>
    /\ ck_pc = "raised"

(***************************************************************************)
(* retry_on_deadlock (core_postgres_db/decorators.py, core_db/decorators.py)*)
(***************************************************************************)
None == "None"
Ok == [kind |-> "ok"]

\* an exception object: is_exception is isinstance(e, Exception) (FALSE for
\* KeyboardInterrupt, SystemExit, asyncio.CancelledError), msg is str(e)
Err(cls, is_exc, msg) ==
    [kind |-> "error", cls |-> cls, is_exception |-> is_exc, msg |-> msg]

\* what the wrapped database operation can raise
DbErrors ==
    { Err("OperationalError", TRUE, s_Deadlock_detected),
      Err("OperationalError", TRUE, s_could_not_serialize_access),
      Err("OperationalError", TRUE, s_Connection_refused),
      Err("ProgrammingError", TRUE, s_syntax_error),
      Err("CancelledError", FALSE, <<>>) }

\* decorators.py: retryable_keywords
retryable_keywords ==
    << s_deadlock, s_serialization, s_could_not_serialize, s_lock_conflict,
       s_try_again, s_retry, s_timeout, s_connection >>

\* core_db/decorators.py: the keyword list of is_deadlock
deadlock_keywords == << s_deadlock, s_serialization, s_could_not_serialize >>

\* a plausible slip: every error is taken to be retryable
IsRetryableError_always(error) == TRUE

\* core_postgres_db.decorators._is_retryable_error
IsRetryableError(error) == AnyIn(retryable_keywords, Lower(error.msg))

\* core_db.decorators: is_deadlock
IsDeadlock(error) == AnyIn(deadlock_keywords, Lower(error.msg))

RetryInit ==
    /\ rd_pkg \in {"core_postgres_db", "core_db"}
    /\ rd_max \in 0..MaxRetries
    /\ rd_attempt = 0
    /\ rd_hist = <<>>
    /\ rd_pc = "loop"
    /\ rd_raised = None

\* one iteration of `for attempt in range(max_retries)` of the
\* core_postgres_db wrapper (sync_wrapper and async_wrapper are the same loop)
RetryOnDeadlockAttempt ==
    /\ rd_pc = "loop"
    /\ rd_pkg = "core_postgres_db"
    /\ rd_attempt < rd_max
    /\ \E r \in {Ok} \cup DbErrors :
        /\ rd_hist' = Append(rd_hist, r)
        /\ IF r.kind = "ok"
           THEN rd_pc' = "returned" /\ UNCHANGED <<rd_attempt, rd_raised>>
           ELSE IF ~r.is_exception
           THEN \* not caught by `except Exception`
                rd_pc' = "raised" /\ rd_raised' = r /\ UNCHANGED rd_attempt
           ELSE IF ~IsRetryableError(r) \/ rd_attempt >= rd_max - 1
           THEN rd_pc' = "raised" /\ rd_raised' = r /\ UNCHANGED rd_attempt
           ELSE rd_attempt' = rd_attempt + 1 /\ UNCHANGED <<rd_pc, rd_raised>>
    /\ UNCHANGED <<rd_pkg, rd_max>>
    /\ UNCHANGED notRd

\* one iteration of the loop of the core_db wrapper
CoreDbRetryOnDeadlockAttempt ==
    /\ rd_pc = "loop"
    /\ rd_pkg = "core_db"
    /\ rd_attempt < rd_max
    /\ \E r \in {Ok} \cup DbErrors :
        /\ rd_hist' = Append(rd_hist, r)
        /\ IF r.kind = "ok"
           THEN rd_pc' = "returned" /\ UNCHANGED <<rd_attempt, rd_raised>>
           ELSE IF ~r.is_exception
           THEN rd_pc' = "raised" /\ rd_raised' = r /\ UNCHANGED rd_attempt
           ELSE IF IsDeadlock(r) /\ rd_attempt < rd_max - 1
           THEN rd_attempt' = rd_attempt + 1 /\ UNCHANGED <<rd_pc, rd_raised>>
           ELSE rd_pc' = "raised" /\ rd_raised' = r /\ UNCHANGED rd_attempt
    /\ UNCHANGED <<rd_pkg, rd_max>>
    /\ UNCHANGED notRd

\* the statement after the loop, reached only when range(max_retries) is
\* empty: `raise last_exception if last_exception else RuntimeError(...)`
\* (core_postgres_db), `raise last_exception` with None (core_db: TypeError)
RetryOnDeadlockFallThrough ==
    /\ rd_pc = "loop"
    /\ rd_attempt >= rd_max
    /\ rd_pc' = "raised"
    /\ rd_raised' = IF rd_pkg = "core_postgres_db"
                    THEN Err("RuntimeError", TRUE, <<>>)
                    ELSE Err("TypeError", TRUE, <<>>)
    /\ UNCHANGED <<rd_pkg, rd_max, rd_attempt, rd_hist>>
    /\ UNCHANGED notRd

RetryNext ==
    \/ RetryOnDeadlockAttempt
    \/ CoreDbRetryOnDeadlockAttempt
    \/ RetryOnDeadlockFallThrough

RetryIdle ==
    /\ rd_pkg = "core_db"
    /\ rd_max = 0
    /\ rd_attempt = 0
    /\ rd_hist = <<>>
    /\ rd_pc = "returned"
    /\ rd_raised = None

(***************************************************************************)
(* Transactions (transactions.py, sync_postgres.py, async_postgres.py,     *)
(* core_db/sync_crud_operations.py)                                        *)
(***************************************************************************)
Keys == {"k1", "k2"}
Vals == {"a", "b"}
NoRow == "NoRow"
Untouched == "Untouched"
NoErr == [kind |-> "none"]

NoPending == [k \in Keys |-> Untouched]
FreshConn == [active |-> TRUE, pending |-> NoPending, log |-> <<>>]
ClosedConn == [active |-> FALSE, pending |-> NoPending, log |-> <<>>]

\* the driver makes a connection's pending writes visible
ApplyPending(d, pending) ==
    [k \in Keys |-> IF pending[k] = Untouched THEN d[k] ELSE pending[k]]

\* conn.commit(): ends the connection's transaction, publishing its writes
ConnCommit(c, d, who) ==
    IF c.active
    THEN [conn |-> [active |-> FALSE, pending |-> NoPending,
                    log |-> Append(c.log, [op |-> "commit", by |-> who])],
          db |-> ApplyPending(d, c.pending)]
    ELSE [conn |-> c, db |-> d]

\* conn.rollback(): ends the connection's transaction, dropping its writes
ConnRollback(c, d, who) ==
    IF c.active
    THEN [conn |-> [active |-> FALSE, pending |-> NoPending,
                    log |-> Append(c.log, [op |-> "rollback", by |-> who])],
          db |-> d]
    ELSE [conn |-> c, db |-> d]

\* leaving `with self.engine.begin() as conn`: the driver ends a transaction
\* that is still active, by commit on a clean exit and by rollback otherwise
EngineBeginExit(c, d, raised) ==
    IF raised THEN ConnRollback(c, d, "engine.begin")
              ELSE ConnCommit(c, d, "engine.begin")

\* a plausible slip: the except branch commits instead of rolling back
BeginOnException_commits(c, d) == ConnCommit(c, d, "TransactionManager.begin")

\* TransactionManager.begin / AsyncTransactionManager.begin: `except Exception`
BeginOnException(c, d) == ConnRollback(c, d, "TransactionManager.begin")

\* TransactionManager.begin / AsyncTransactionManager.begin: `else`
BeginOnCleanExit(c, d) == ConnCommit(c, d, "TransactionManager.begin")

\* the part of begin() after its yield, given what the with-body handed back
\* (NoErr, or the exception thrown into the generator), then the exit of the
\* driver's engine.begin() block around it
BeginAfterYield(c, d, e) ==
    LET r == IF e.kind = "none" THEN BeginOnCleanExit(c, d)
             ELSE IF e.is_exception THEN BeginOnException(c, d)
             ELSE [conn |-> c, db |-> d]
    IN  EngineBeginExit(r.conn, r.db, e.kind # "none")

\* TransactionError(f"Transaction failed: {e}") raised inside `except`: the
\* message embeds str(e), original_error stays None, __context__ is e
TransactionError(e, client) ==
    [kind |-> "error", cls |-> "TransactionError", is_exception |-> TRUE,
     msg |-> s_Transaction_error
             \o (IF client = "atransaction" THEN s_Async_transaction_failed
                                             ELSE s_Transaction_failed)
             \o e.msg,
     original_error |-> None,
     context |-> e]

\* a plausible slip: the original exception is re-raised as it is
TransactionAfterYield_reraise(e, client) == e

\* transaction() / atransaction() after the yield: `except Exception as e:
\* raise TransactionError(...)`; anything else passes through
TransactionAfterYield(e, client) ==
    IF e.kind = "error" /\ e.is_exception THEN TransactionError(e, client) ELSE e

\* what the body of the with-statement can raise by itself
BodyErrors ==
    { Err("ValueError", TRUE, s_boom),
      Err("TransactionError", TRUE, s_Transaction_error \o s_boom),
      Err("KeyboardInterrupt", FALSE, <<>>),
      Err("CancelledError", FALSE, <<>>) }

\* _handle_integrity_error on a duplicate key
DuplicateEntryError == Err("DuplicateEntryError", TRUE, s_duplicate_key)

IsolationLevels == {"READ COMMITTED", "SERIALIZABLE", "READ UNCOMMITTED"}
valid_levels == {"READ COMMITTED", "REPEATABLE READ", "SERIALIZABLE"}

TxInit ==
    /\ db \in [Keys -> Vals \cup {NoRow}]
    /\ conn = ClosedConn
    /\ tx_client \in {"transaction", "atransaction"}
    /\ tx_pc = "idle"
    /\ tx_opened = FALSE
    /\ tx_pre = db
    /\ tx_writes = 0
    /\ tx_body = NoErr
    /\ tx_seen = NoErr

\* `with db.transaction(isolation_level) as conn:` up to the yield of
\* TransactionManager.begin; an invalid level raises ValueError before it
TransactionEnter ==
    /\ tx_pc = "idle"
    /\ \E isolation_level \in IsolationLevels :
        IF isolation_level # "READ COMMITTED" /\ isolation_level \notin valid_levels
        THEN LET e == Err("ValueError", TRUE, s_boom)
                 r == BeginAfterYield(FreshConn, db, e)
             IN  /\ conn' = r.conn
                 /\ db' = r.db
                 /\ tx_pc' = "done"
                 /\ tx_seen' = e
                 /\ UNCHANGED <<tx_opened, tx_pre>>
        ELSE /\ conn' = FreshConn
             /\ tx_pc' = "body"
             /\ tx_opened' = TRUE
             /\ tx_pre' = db
             /\ UNCHANGED <<db, tx_seen>>
    /\ UNCHANGED <<tx_client, tx_writes, tx_body>>
    /\ UNCHANGED notTx

\* the end of the scope, the body having ended with e (NoErr when clean)
ScopeExit(e, d) ==
    LET r == BeginAfterYield(conn, d, TransactionAfterYield(e, tx_client))
    IN  /\ conn' = r.conn
        /\ db' = r.db
        /\ tx_pc' = "done"
        /\ tx_body' = e
        /\ tx_seen' = TransactionAfterYield(e, tx_client)

\* db.create(table, data) called inside the scope: the INSERT runs in its own
\* `with self.engine.begin()` block, which commits when create returns; a
\* duplicate key raises DuplicateEntryError out of the body
ClientCreate ==
    /\ tx_pc = "body"
    /\ tx_writes < MaxWrites
    /\ \E k \in Keys, v \in Vals :
        /\ conn.pending[k] = Untouched
        /\ tx_writes' = tx_writes + 1
        /\ IF db[k] = NoRow
           THEN /\ db' = [db EXCEPT ![k] = v]
                /\ UNCHANGED <<conn, tx_pc, tx_body, tx_seen>>
           ELSE ScopeExit(DuplicateEntryError, db)
    /\ UNCHANGED <<tx_client, tx_opened, tx_pre>>
    /\ UNCHANGED notTx

\* db.update(table, data, conditions) inside the scope (atomic=True): its own
\* engine.begin() block
ClientUpdate ==
    /\ tx_pc = "body"
    /\ tx_writes < MaxWrites
    /\ \E k \in Keys, v \in Vals :
        /\ conn.pending[k] = Untouched
        /\ db' = IF db[k] = NoRow THEN db ELSE [db EXCEPT ![k] = v]
    /\ tx_writes' = tx_writes + 1
    /\ UNCHANGED <<conn, tx_client, tx_pc, tx_opened, tx_pre, tx_body, tx_seen>>
    /\ UNCHANGED notTx

\* db.delete(table, conditions) inside the scope: its own engine.begin() block
ClientDelete ==
    /\ tx_pc = "body"
    /\ tx_writes < MaxWrites
    /\ \E k \in Keys :
        /\ conn.pending[k] = Untouched
        /\ db' = [db EXCEPT ![k] = NoRow]
    /\ tx_writes' = tx_writes + 1
    /\ UNCHANGED <<conn, tx_client, tx_pc, tx_opened, tx_pre, tx_body, tx_seen>>
    /\ UNCHANGED notTx

\* conn.execute(...) on the connection the scope yielded: a write that stays
\* pending on that connection until its commit or rollback
ConnExecute ==
    /\ tx_pc = "body"
    /\ conn.active
    /\ \E k \in Keys, v \in Vals \cup {NoRow} :
        conn' = [conn EXCEPT !.pending[k] = v]
    /\ UNCHANGED <<db, tx_client, tx_pc, tx_opened, tx_pre, tx_writes, tx_body, tx_seen>>
    /\ UNCHANGED notTx

\* the body runs to its end
BodyReturn ==
    /\ tx_pc = "body"
    /\ ScopeExit(NoErr, db)
    /\ UNCHANGED <<tx_client, tx_opened, tx_pre, tx_writes>>
    /\ UNCHANGED notTx

\* the body raises
BodyRaise ==
    /\ tx_pc = "body"
    /\ \E e \in BodyErrors : ScopeExit(e, db)
    /\ UNCHANGED <<tx_client, tx_opened, tx_pre, tx_writes>>
    /\ UNCHANGED notTx

TxNext ==
    \/ TransactionEnter
    \/ ClientCreate
    \/ ClientUpdate
    \/ ClientDelete
    \/ ConnExecute
    \/ BodyReturn
    \/ BodyRaise

TxIdle ==
    /\ db = [k \in Keys |-> NoRow]
    /\ conn = ClosedConn
    /\ tx_client = "transaction"
    /\ tx_pc = "done"
    /\ tx_opened = FALSE
    /\ tx_pre = db
    /\ tx_writes = 0
    /\ tx_body = NoErr
    /\ tx_seen = NoErr

(***************************************************************************)
(* BulkProcessor (core_opensearch/bulk_processor.py)                       *)
(***************************************************************************)
\* constants.py: BULK_RETRY_ATTEMPTS, the default of max_retries
BULK_RETRY_ATTEMPTS == 3

NoId == "NoId"        \* the action carries no "_id"
AutoId == "AutoId"    \* the identifier the engine generates for such an action
NoKey == "NoKey"      \* dict.get(key) found no such key
Ids == {"d1", "d2"}

\* BulkOperationResult(total=n)
BulkOperationResult(n) ==
    [total |-> n, successful |-> 0, failed |-> 0, errors |-> <<>>, has_errors |-> FALSE]

\* self.stats of __init__ / reset_stats
ZeroStats ==
    [total_batches |-> 0, total_documents |-> 0, successful_batches |-> 0,
     failed_batches |-> 0, total_retries |-> 0, total_errors |-> 0]

\* a plausible slip: the first submission counts as a retry
BulkBatch_countsFirst(actions, op) ==
    [actions |-> actions, operation_type |-> op, retry_count |-> 1]

\* BulkBatch(actions, index_name, operation_type, retry_count=0)
BulkBatch(actions, op) == [actions |-> actions, operation_type |-> op, retry_count |-> 0]

\* _should_retry_batch: retryable_errors
bulk_retryable_errors ==
    << s_version_conflict, s_document_missing, s_cluster_block, s_circuit_breaking,
       s_429, s_503, s_timeout, s_connection >>

\* the error types the engine reports for a record
ErrorTypes == {s_version_conflict_engine_exception, s_mapper_parsing_exception}

\* what a driver call can raise
DriverErrors ==
    { Err("ConnectionTimeout", TRUE, s_ConnectionTimeout),
      Err("RequestError", TRUE, s_mapper_parsing_exception) }

\* One entry of the `errors` list a bulk call returns for the action `a`.
\* shape "helpers": the entry opensearchpy.helpers.bulk builds, {op: {"_id",
\* "status", "error": {"type"}}}: the op-type key, no top-level "error" key.
\* shape "flat": the entry the processor's code reads, {"index": {"_id"},
\* "error": {"type"}}.
ErrorItem(a, type, shape) ==
    [key |-> IF shape = "flat" THEN "index" ELSE a.op,
     _id |-> IF a.id = NoId THEN AutoId ELSE a.id,
     error |-> IF shape = "flat" THEN type ELSE NoKey,
     item_error |-> type]

\* _should_retry_batch: `retryable in error_type.lower() or retryable in
\* error_reason` for some keyword of the list
MatchesRetryable(text) == AnyIn(bulk_retryable_errors, Lower(text))

\* MatchesRetryable, tabulated once over the texts that occur
RetryableTable ==
    [t \in ErrorTypes \cup {e.msg : e \in DriverErrors} |-> MatchesRetryable(t)]

\* the entry names an error of the transient keyword list, wherever the
\* entry keeps its error type
IsRetryableItem(item) == RetryableTable[item.item_error]

\* the elements of seq at the positions in S, in order
RECURSIVE SelectPos(_, _, _)
SelectPos(seq, S, i) ==
    IF i > Len(seq) THEN <<>>
    ELSE (IF i \in S THEN <<seq[i]>> ELSE <<>>) \o SelectPos(seq, S, i + 1)

\* how the error types are spread over the failed actions of one answer: all
\* transient, all permanent, or a permanent one first and transient ones after
TypeSpreads(F) ==
    LET lo == CHOOSE i \in F : \A j \in F : i <= j
    IN  { [i \in F |-> s_version_conflict_engine_exception],
          [i \in F |-> s_mapper_parsing_exception],
          [i \in F |-> IF i = lo THEN s_mapper_parsing_exception
                                 ELSE s_version_conflict_engine_exception] }

\* the answers of one driver call on `actions`: it raises, or it returns
\* (success, errors) with one entry per failed action and the rest counted
DriverAnswers(actions, shape) ==
    { [kind |-> "raise", err |-> e, success |-> 0, errors |-> <<>>, failed_pos |-> {}]
        : e \in DriverErrors }
    \cup
    { [kind |-> "result", err |-> NoErr, success |-> Len(actions),
       errors |-> <<>>, failed_pos |-> {}] }
    \cup
    UNION { { [kind |-> "result", err |-> NoErr,
               success |-> Len(actions) - Cardinality(F),
               errors |-> SelectPos([i \in 1..Len(actions) |->
                                        IF i \in F THEN ErrorItem(actions[i], t[i], shape)
                                        ELSE NoKey], F, 1),
               failed_pos |-> F]
              : t \in TypeSpreads(F) }
            : F \in (SUBSET (1..Len(actions))) \ {{}} }

\* a plausible slip: the top-level "error" key is never looked at
ShouldRetryBatch_never(errors) == FALSE

\* BulkProcessor._should_retry_batch: error.get("error", {}) is read at the
\* top level of the entry; without that key the type is "" and the reason "{}"
ShouldRetryBatch(errors) ==
    \E k \in 1..Len(errors) :
        /\ errors[k].error # NoKey
        /\ RetryableTable[errors[k].error]

\* for i, action in enumerate(batch.actions): ... break -- the first action
\* whose "_id" equals the entry's, or 0
FirstWithId(actions, id) ==
    IF \E i \in 1..Len(actions) : actions[i].id = id
    THEN CHOOSE i \in 1..Len(actions) :
            /\ actions[i].id = id
            /\ \A j \in 1..(i - 1) : actions[j].id # id
    ELSE 0

\* _prepare_batch_for_retry: error_indices
ErrorIndices(batch, errors) ==
    { FirstWithId(batch.actions, errors[k]._id) :
        k \in {j \in 1..Len(errors) : errors[j].key = "index"} } \ {0}

\* _prepare_batch_for_retry raises AttributeError: list(action.values())[0] of
\* an update or delete action is the string "update" / "delete", which has no
\* .get; reached when an entry has the "index" key
PrepareRaises(batch, errors) ==
    /\ batch.operation_type \in {"update", "delete"}
    /\ batch.actions # <<>>
    /\ \E k \in 1..Len(errors) : errors[k].key = "index"

\* BulkProcessor._prepare_batch_for_retry
PrepareBatchForRetry(batch, errors) ==
    [actions |-> SelectPos(batch.actions, ErrorIndices(batch, errors), 1),
     operation_type |-> batch.operation_type,
     retry_count |-> batch.retry_count + 1]

\* a plausible slip: the final-attempt handler forgets the failed count
OnFinalException_keepCount(batch_result, batch, e) ==
    [batch_result EXCEPT !.has_errors = TRUE,
                         !.errors = Append(@, [batch_error |-> e.msg])]

\* _process_batch_with_retry, `except Exception` on the final attempt
OnFinalException(batch_result, batch, e) ==
    [batch_result EXCEPT !.failed = Len(batch.actions),
                         !.has_errors = TRUE,
                         !.errors = Append(@, [batch_error |-> e.msg])]

Shapes == {"helpers", "flat"}

\* the identifiers of a list in the order of their first appearance: lists
\* that differ only by a renaming of the identifiers behave alike
Canonical(ids) ==
    \A k \in 1..Len(ids) :
        ids[k] = "d2" => \E j \in 1..(k - 1) : ids[j] = "d1"

BpInit ==
    /\ bp_cfg \in [op : {"index", "update", "delete"},
                   max_retries : 0..BULK_RETRY_ATTEMPTS,
                   batch_size : 1..MaxDocs,
                   refresh_after_batch : BOOLEAN,
                   shape : Shapes]
    /\ bp_pc = "idle"
    /\ bp_ndocs = 0
    /\ bp_batches = <<>>
    /\ bp_i = 0
    /\ bp_batch = BulkBatch(<<>>, "index")
    /\ bp_attempt = 0
    /\ bp_batch_result = BulkOperationResult(0)
    /\ bp_result = BulkOperationResult(0)
    /\ bp_stats = ZeroStats
    /\ bp_refreshes = 0
    /\ bp_submits = 0
    /\ bp_sub = <<>>
    /\ bp_resp = [kind |-> "none"]
    /\ bp_want = [set |-> FALSE, actions |-> <<>>]
    /\ bp_only_retryable = TRUE
    /\ bp_nonretryable_raise = FALSE
    /\ bp_calls = 0
    /\ bp_resets = 0
    /\ bp_raised = FALSE

\* the start of one iteration of `for i, batch in enumerate(batches, 1)` and
\* of the _process_batch_with_retry call in it
EnterBatch(batches, i, stats) ==
    /\ bp_i' = i
    /\ bp_batch' = batches[i]
    /\ bp_attempt' = 0
    /\ bp_batch_result' = BulkOperationResult(Len(batches[i].actions))
    /\ bp_stats' = [stats EXCEPT !.total_batches = @ + 1]
    /\ bp_pc' = IF bp_cfg.max_retries > 0 THEN "retry_loop" ELSE "batch_return"
    /\ bp_submits' = 0
    /\ bp_sub' = <<>>
    /\ bp_resp' = [kind |-> "none"]
    /\ bp_want' = [set |-> FALSE, actions |-> <<>>]
    /\ bp_only_retryable' = TRUE
    /\ bp_nonretryable_raise' = FALSE

\* process_bulk_* once its batches are built: empty input returns an empty
\* result, otherwise _process_batches starts on the first batch
StartBatches(n, actions, stats) ==
    /\ bp_ndocs' = n
    /\ bp_result' = BulkOperationResult(0)
    /\ IF actions = <<>>
       THEN /\ bp_pc' = "returned"
            /\ UNCHANGED <<bp_batches, bp_i, bp_batch, bp_attempt, bp_batch_result,
                           bp_stats, bp_submits, bp_sub, bp_resp, bp_want,
                           bp_only_retryable, bp_nonretryable_raise>>
       ELSE LET chunks == ChunkDocuments(actions, bp_cfg.batch_size)
                batches == [k \in 1..Len(chunks) |-> BulkBatch(chunks[k], bp_cfg.op)]
            IN  /\ bp_batches' = batches
                /\ EnterBatch(batches, 1, stats)

\* process_bulk_index(index_name, documents): a document is modelled by its
\* "_id" (NoId when it has none)
ProcessBulkIndex ==
    /\ bp_pc = "idle"
    /\ bp_cfg.op = "index"
    /\ \E documents \in {d \in SeqsUpTo(Ids \cup {NoId}, MaxDocs) : Canonical(d)} :
        StartBatches(Len(documents),
                     [k \in 1..Len(documents) |-> [op |-> "index", id |-> documents[k]]],
                     IF documents = <<>> THEN bp_stats
                     ELSE [bp_stats EXCEPT !.total_documents = @ + Len(documents)])
    /\ bp_calls' = bp_calls + 1
    /\ bp_raised' = FALSE
    /\ UNCHANGED <<bp_cfg, bp_refreshes, bp_resets>>
    /\ UNCHANGED notBp

\* process_bulk_update(index_name, updates): an update without the id field
\* raises ValueError while the batches are built
ProcessBulkUpdate ==
    /\ bp_pc = "idle"
    /\ bp_cfg.op = "update"
    /\ \E updates \in {d \in SeqsUpTo(Ids \cup {NoId}, MaxDocs) : Canonical(d)} :
        IF \E k \in 1..Len(updates) : updates[k] = NoId
        THEN /\ bp_pc' = "raised"
             /\ UNCHANGED <<bp_ndocs, bp_batches, bp_i, bp_batch, bp_attempt,
                            bp_batch_result, bp_result, bp_stats, bp_submits, bp_sub,
                            bp_resp, bp_want, bp_only_retryable, bp_nonretryable_raise>>
        ELSE StartBatches(Len(updates),
                          [k \in 1..Len(updates) |-> [op |-> "update", id |-> updates[k]]],
                          bp_stats)
    /\ bp_calls' = bp_calls + 1
    /\ bp_raised' = FALSE
    /\ UNCHANGED <<bp_cfg, bp_refreshes, bp_resets>>
    /\ UNCHANGED notBp

\* process_bulk_delete(index_name, document_ids)
ProcessBulkDelete ==
    /\ bp_pc = "idle"
    /\ bp_cfg.op = "delete"
    /\ \E document_ids \in {d \in SeqsUpTo(Ids, MaxDocs) : Canonical(d)} :
        StartBatches(Len(document_ids),
                     [k \in 1..Len(document_ids) |-> [op |-> "delete", id |-> document_ids[k]]],
                     bp_stats)
    /\ bp_calls' = bp_calls + 1
    /\ bp_raised' = FALSE
    /\ UNCHANGED <<bp_cfg, bp_refreshes, bp_resets>>
    /\ UNCHANGED notBp

\* one iteration of `for attempt in range(self.max_retries)` in
\* _process_batch_with_retry: the driver call and everything done with its
\* answer, up to `continue`, `break` or the end of the except branch
ProcessBatchAttempt ==
    /\ bp_pc = "retry_loop"
    /\ bp_attempt < bp_cfg.max_retries
    /\ \E r \in DriverAnswers(bp_batch.actions, bp_cfg.shape) :
        LET last == bp_attempt = bp_cfg.max_retries - 1
            \* lines 299-307
            br == [bp_batch_result EXCEPT !.successful = r.success,
                                          !.failed = Len(r.errors),
                                          !.errors = r.errors,
                                          !.has_errors = Len(r.errors) > 0]
            st == IF bp_attempt > 0
                  THEN [bp_stats EXCEPT !.total_retries = @ + 1] ELSE bp_stats
            b1 == IF bp_attempt > 0
                  THEN [bp_batch EXCEPT !.retry_count = bp_attempt] ELSE bp_batch
            retry == br.has_errors /\ ShouldRetryBatch(r.errors) /\ ~last
            nb == PrepareBatchForRetry(b1, r.errors)
        IN  /\ bp_submits' = bp_submits + 1
            /\ bp_sub' = bp_batch.actions
            /\ bp_resp' = r
            /\ bp_only_retryable' =
                 (bp_only_retryable /\ r.kind = "result" /\ r.errors # <<>>
                  /\ \A k \in 1..Len(r.errors) : IsRetryableItem(r.errors[k]))
            /\ bp_nonretryable_raise' =
                 (bp_nonretryable_raise
                  \/ (r.kind = "raise" /\ ~RetryableTable[r.err.msg]))
            /\ bp_raised' = (bp_raised \/ r.kind = "raise")
            /\ bp_want' =
                 IF /\ r.kind = "result" /\ r.errors # <<>> /\ ~last
                    /\ \A k \in 1..Len(r.errors) : IsRetryableItem(r.errors[k])
                 THEN [set |-> TRUE, actions |-> SelectPos(bp_batch.actions, r.failed_pos, 1)]
                 ELSE [set |-> FALSE, actions |-> <<>>]
            /\ IF r.kind = "raise"
               THEN \* except Exception (lines 338-352)
                    /\ bp_batch_result' =
                         IF last THEN OnFinalException(bp_batch_result, bp_batch, r.err)
                         ELSE bp_batch_result
                    /\ bp_pc' = IF last THEN "batch_return" ELSE "retry_loop"
                    /\ bp_attempt' = IF last THEN bp_attempt ELSE bp_attempt + 1
                    /\ UNCHANGED <<bp_batch, bp_stats>>
               ELSE IF retry /\ PrepareRaises(b1, r.errors)
               THEN \* AttributeError out of _prepare_batch_for_retry, caught by
                    \* `except Exception` on an attempt that is not the last
                    /\ bp_batch_result' = br
                    /\ bp_stats' = st
                    /\ bp_batch' = b1
                    /\ bp_pc' = "retry_loop"
                    /\ bp_attempt' = bp_attempt + 1
               ELSE IF retry /\ nb.actions # <<>>
               THEN \* `continue` with the narrowed batch
                    /\ bp_batch_result' = br
                    /\ bp_stats' = st
                    /\ bp_batch' = nb
                    /\ bp_pc' = "retry_loop"
                    /\ bp_attempt' = bp_attempt + 1
               ELSE \* `break`: no errors, no retry, or nothing left to retry
                    /\ bp_batch_result' = br
                    /\ bp_stats' = st
                    /\ bp_batch' = IF retry THEN nb ELSE b1
                    /\ bp_pc' = "batch_return"
                    /\ UNCHANGED bp_attempt
    /\ UNCHANGED <<bp_cfg, bp_ndocs, bp_batches, bp_i, bp_result, bp_refreshes,
                   bp_calls, bp_resets>>
    /\ UNCHANGED notBp

\* a plausible slip: every batch is refreshed, whatever its result
ShouldRefresh_anyResult(cfg, batch_result) == cfg.refresh_after_batch

\* _process_batches: `if self.refresh_after_batch and not batch_result.has_errors`
ShouldRefresh(cfg, batch_result) ==
    cfg.refresh_after_batch /\ ~batch_result.has_errors

\* a plausible slip: only the batches with errors are counted
StatsAfterBatch_failedOnly(stats, batch_result) ==
    IF batch_result.has_errors
    THEN [stats EXCEPT !.failed_batches = @ + 1,
                       !.total_errors = @ + batch_result.failed]
    ELSE stats

\* _process_batches, "Update stats": the batch is counted as failed or as
\* successful
StatsAfterBatch(stats, batch_result) ==
    IF batch_result.has_errors
    THEN [stats EXCEPT !.failed_batches = @ + 1,
                       !.total_errors = @ + batch_result.failed]
    ELSE [stats EXCEPT !.successful_batches = @ + 1]

\* _process_batch_with_retry returns into _process_batches: the overall result
\* and the stats are updated, the index is refreshed when configured, and the
\* loop goes on to the next batch or the call returns
ProcessBatchesStep ==
    /\ bp_pc = "batch_return"
    /\ LET res == [bp_result EXCEPT
                      !.successful = @ + bp_batch_result.successful,
                      !.failed = @ + bp_batch_result.failed,
                      !.errors = @ \o bp_batch_result.errors]
           st == StatsAfterBatch(bp_stats, bp_batch_result)
       IN  /\ bp_refreshes' =
                IF ShouldRefresh(bp_cfg, bp_batch_result)
                THEN bp_refreshes + 1 ELSE bp_refreshes
           /\ IF bp_i < Len(bp_batches)
              THEN /\ bp_result' = res
                   /\ EnterBatch(bp_batches, bp_i + 1, st)
              ELSE /\ bp_result' =
                        [res EXCEPT !.has_errors = res.failed > 0,
                                    !.total = IF bp_cfg.op = "index" THEN bp_ndocs ELSE @]
                   /\ bp_stats' = st
                   /\ bp_pc' = "returned"
                   /\ UNCHANGED <<bp_i, bp_batch, bp_attempt, bp_batch_result, bp_submits,
                                  bp_sub, bp_resp, bp_want, bp_only_retryable,
                                  bp_nonretryable_raise>>
    /\ UNCHANGED <<bp_cfg, bp_ndocs, bp_batches, bp_calls, bp_resets, bp_raised>>
    /\ UNCHANGED notBp

\* the call has returned or raised and the caller goes on to its next call
\* on the same processor: the locals of the finished call are gone, the
\* processor keeps its configuration and its stats
BulkCallCompleted ==
    /\ bp_pc \in {"returned", "raised"}
    /\ bp_calls < MaxCalls
    /\ bp_pc' = "idle"
    /\ bp_ndocs' = 0
    /\ bp_batches' = <<>>
    /\ bp_i' = 0
    /\ bp_batch' = BulkBatch(<<>>, "index")
    /\ bp_attempt' = 0
    /\ bp_batch_result' = BulkOperationResult(0)
    /\ bp_result' = BulkOperationResult(0)
    /\ bp_submits' = 0
    /\ bp_sub' = <<>>
    /\ bp_resp' = [kind |-> "none"]
    /\ bp_want' = [set |-> FALSE, actions |-> <<>>]
    /\ bp_only_retryable' = TRUE
    /\ bp_nonretryable_raise' = FALSE
    /\ bp_raised' = FALSE
    /\ UNCHANGED <<bp_cfg, bp_stats, bp_refreshes, bp_calls, bp_resets>>
    /\ UNCHANGED notBp

\* reset_stats(), between two calls
BulkResetStats ==
    /\ bp_pc = "idle"
    /\ bp_resets < MaxResets
    /\ bp_stats' = ZeroStats
    /\ bp_resets' = bp_resets + 1
    /\ UNCHANGED <<bp_cfg, bp_pc, bp_ndocs, bp_batches, bp_i, bp_batch, bp_attempt,
                   bp_batch_result, bp_result, bp_refreshes, bp_submits,
                   bp_sub, bp_resp, bp_want, bp_only_retryable, bp_nonretryable_raise,
                   bp_calls, bp_raised>>
    /\ UNCHANGED notBp

BpNext ==
    \/ ProcessBulkIndex
    \/ ProcessBulkUpdate
    \/ ProcessBulkDelete
    \/ ProcessBatchAttempt
    \/ ProcessBatchesStep

BpIdle ==
    /\ bp_cfg = [op |-> "index", max_retries |-> 0, batch_size |-> 1,
                 refresh_after_batch |-> FALSE, shape |-> "helpers"]
    /\ bp_pc = "returned"
    /\ bp_ndocs = 0
    /\ bp_batches = <<>>
    /\ bp_i = 0
    /\ bp_batch = BulkBatch(<<>>, "index")
    /\ bp_attempt = 0
    /\ bp_batch_result = BulkOperationResult(0)
    /\ bp_result = BulkOperationResult(0)
    /\ bp_stats = ZeroStats
    /\ bp_refreshes = 0
    /\ bp_submits = 0
    /\ bp_sub = <<>>
    /\ bp_resp = [kind |-> "none"]
    /\ bp_want = [set |-> FALSE, actions |-> <<>>]
    /\ bp_only_retryable = TRUE
    /\ bp_nonretryable_raise = FALSE
    /\ bp_calls = 0
    /\ bp_resets = 0
    /\ bp_raised = FALSE

(***************************************************************************)
(* core_opensearch: SyncOpenSearchDB.bulk_index, AsyncOpenSearchDB.        *)
(* bulk_index and RetryHandler                                             *)
(***************************************************************************)
\* max_attempts=3 in the retry_with_backoff call of _process_bulk_batch
max_attempts == 3

\* RetryHandler.should_retry: retryable_errors
retryable_errors ==
    << s_connection, s_timeout, s_temporarily_unavailable, s_cluster_block,
       s_circuit_breaking, s_429, s_503 >>

\* a plausible slip: every error is taken for a permanent one
ShouldRetry_never(error) == FALSE

\* RetryHandler.should_retry(error): a keyword occurs in str(error).lower()
ShouldRetry(error) == AnyIn(retryable_errors, Lower(error.msg))

\* a plausible slip: the batch's handler records the error but not the count
OnBatchException_keepCount(result, documents, e) ==
    [result EXCEPT !.has_errors = TRUE,
                   !.errors = Append(@, [batch_error |-> e.msg])]

\* _process_bulk_batch, `except Exception as e`: every document of the batch
\* is marked failed and the result is returned
OnBatchException(result, documents, e) ==
    [result EXCEPT !.failed = Len(documents),
                   !.has_errors = TRUE,
                   !.errors = Append(@, [batch_error |-> e.msg])]

\* _process_bulk_batch after retry_with_backoff returned (success, errors)
OnBatchAnswer(result, r) ==
    [result EXCEPT !.successful = r.success,
                   !.failed = Len(r.errors),
                   !.errors = r.errors,
                   !.has_errors = r.errors # <<>>]

OsInit ==
    /\ os_cls \in {"sync", "async"}
    /\ os_pc = "idle"
    /\ os_batch_size = 0
    /\ os_batches = <<>>
    /\ os_i = 0
    /\ os_attempt = 0
    /\ os_calls = 0
    /\ os_resp = [kind |-> "none"]
    /\ os_batch_result = BulkOperationResult(0)
    /\ os_result = BulkOperationResult(0)

\* the start of _process_bulk_batch for the batch at position i
OsEnterBatch(batches, i) ==
    /\ os_i' = i
    /\ os_attempt' = 0
    /\ os_calls' = 0
    /\ os_resp' = [kind |-> "none"]
    /\ os_batch_result' = BulkOperationResult(Len(batches[i]))
    /\ os_pc' = "retry"

\* bulk_index(index_name, documents, refresh, batch_size): no documents
\* returns an empty result; chunk_documents raises ValidationError on a batch
\* size <= 0, which bulk_index's `except Exception` wraps and raises
BulkIndex ==
    /\ os_pc = "idle"
    /\ \E documents \in {d \in SeqsUpTo(Ids \cup {NoId}, MaxDocs) : Canonical(d)},
          batch_size \in 0..MaxDocs :
        /\ os_batch_size' = batch_size
        /\ IF documents = <<>>
           THEN /\ os_pc' = "returned"
                /\ os_result' = BulkOperationResult(0)
                /\ UNCHANGED <<os_batches, os_i, os_attempt, os_calls, os_resp,
                               os_batch_result>>
           ELSE IF batch_size <= 0
           THEN /\ os_pc' = "raised"
                /\ os_result' = BulkOperationResult(Len(documents))
                /\ UNCHANGED <<os_batches, os_i, os_attempt, os_calls, os_resp,
                               os_batch_result>>
           ELSE LET batches ==
                      ChunkDocuments([k \in 1..Len(documents) |->
                                         [op |-> "index", id |-> documents[k]]],
                                     batch_size)
                IN  /\ os_result' = BulkOperationResult(Len(documents))
                    /\ os_batches' = batches
                    /\ OsEnterBatch(batches, 1)
    /\ UNCHANGED os_cls
    /\ UNCHANGED notOs

\* SyncOpenSearchDB._process_bulk_batch: one iteration of retry_with_backoff's
\* `for attempt in range(max_attempts)` around the driver's bulk(); an answer
\* returns, an error is raised again when it is not retryable or the attempt
\* is the last, and the raised error marks the batch failed
RetryWithBackoffAttempt ==
    /\ os_pc = "retry"
    /\ os_cls = "sync"
    /\ os_attempt < max_attempts
    /\ \E r \in DriverAnswers(os_batches[os_i], "helpers") :
        /\ os_calls' = os_calls + 1
        /\ os_resp' = r
        /\ IF r.kind = "result"
           THEN /\ os_batch_result' = OnBatchAnswer(os_batch_result, r)
                /\ os_pc' = "batch_return"
                /\ UNCHANGED os_attempt
           ELSE IF ~ShouldRetry(r.err) \/ os_attempt = max_attempts - 1
           THEN /\ os_batch_result' =
                     OnBatchException(os_batch_result, os_batches[os_i], r.err)
                /\ os_pc' = "batch_return"
                /\ UNCHANGED os_attempt
           ELSE /\ os_attempt' = os_attempt + 1
                /\ UNCHANGED <<os_batch_result, os_pc>>
    /\ UNCHANGED <<os_cls, os_batch_size, os_batches, os_i, os_result>>
    /\ UNCHANGED notOs

\* AsyncOpenSearchDB._process_bulk_batch: retry_with_backoff is a plain
\* function, so operation_func(**kwargs) only builds async_bulk's coroutine
\* and the loop returns it at attempt 0; the driver runs at the `await`,
\* outside the loop, and what it raises goes to `except Exception as e`
AwaitRetryWithBackoff ==
    /\ os_pc = "retry"
    /\ os_cls = "async"
    /\ \E r \in DriverAnswers(os_batches[os_i], "helpers") :
        /\ os_calls' = os_calls + 1
        /\ os_resp' = r
        /\ os_batch_result' =
             IF r.kind = "result"
             THEN OnBatchAnswer(os_batch_result, r)
             ELSE OnBatchException(os_batch_result, os_batches[os_i], r.err)
        /\ os_pc' = "batch_return"
    /\ UNCHANGED <<os_cls, os_batch_size, os_batches, os_i, os_attempt, os_result>>
    /\ UNCHANGED notOs

\* bulk_index, the rest of the loop body after _process_bulk_batch returned,
\* then the next batch, or has_errors is set and the result returned
BulkIndexStep ==
    /\ os_pc = "batch_return"
    /\ LET res == [os_result EXCEPT
                      !.successful = @ + os_batch_result.successful,
                      !.failed = @ + os_batch_result.failed,
                      !.errors = @ \o os_batch_result.errors]
       IN  IF os_i < Len(os_batches)
           THEN /\ os_result' = res
                /\ OsEnterBatch(os_batches, os_i + 1)
           ELSE /\ os_result' = [res EXCEPT !.has_errors = res.failed > 0]
                /\ os_pc' = "returned"
                /\ UNCHANGED <<os_i, os_attempt, os_calls, os_resp, os_batch_result>>
    /\ UNCHANGED <<os_cls, os_batch_size, os_batches>>
    /\ UNCHANGED notOs

OsNext ==
    \/ BulkIndex
    \/ RetryWithBackoffAttempt
    \/ AwaitRetryWithBackoff
    \/ BulkIndexStep

OsIdle ==
    /\ os_cls = "sync"
    /\ os_pc = "returned"
    /\ os_batch_size = 0
    /\ os_batches = <<>>
    /\ os_i = 0
    /\ os_attempt = 0
    /\ os_calls = 0
    /\ os_resp = [kind |-> "none"]
    /\ os_batch_result = BulkOperationResult(0)
    /\ os_result = BulkOperationResult(0)

(***************************************************************************)
(* performance_monitor: QueryStats (core_postgres_db and core_db) and      *)
(* OpenSearchStats (core_opensearch).  Times of day are whole hours since  *)
(* the tracker was constructed; execution times and row counts are small   *)
(* integers.                                                               *)
(***************************************************************************)
\* stats.execution_times[-1000:] / search_times[-1000:]
RecentWindow == 1000
\* retention_hours: int = 24
retention_hours == 24
\* self._cleanup_interval = timedelta(hours=1)
cleanup_interval == 1
\* float('inf'), the initial min_time
Inf == -1
\* None as the value of a last_* timestamp
NoTime == -1
\* datetime.min, far before every cutoff
DatetimeMin == -17000000

PKeys == {"k1", "k2"}
ExecTimes == {1, 2}
RowCounts == {0, 3}
\* (status, error) of a recording; error None is the empty text
Outcomes == {[status |-> "success", error |-> <<>>], [status |-> "error", error |-> s_boom]}
\* the hours between two calls: none, a cleanup interval, more than the
\* retention window
Elapsed == {0, cleanup_interval, retention_hours + cleanup_interval}
\* (exec_time, success) of an OpenSearch operation: a fast one that succeeded,
\* a slow one that failed
OperationSamples ==
    {[exec_time |-> 1, o |-> [status |-> "success", error |-> <<>>]],
     [exec_time |-> 2, o |-> [status |-> "error", error |-> s_boom]]}
StatsClasses == {"core_postgres_db", "core_db", "opensearch"}

\* a key the dict does not hold
Absent == [absent |-> TRUE]
EmptyStats == [k \in PKeys |-> Absent]
Present(stats) == {k \in PKeys : stats[k] # Absent}

Max(a, b) == IF a > b THEN a ELSE b
\* min(stats.min_time, exec_time) where min_time may be float('inf')
MinTime(min_time, exec_time) == IF min_time = Inf THEN exec_time ELSE Min(min_time, exec_time)

\* core_postgres_db QueryMetrics()
QueryMetrics ==
    [count |-> 0, total_time |-> 0, min_time |-> Inf, max_time |-> 0, total_rows |-> 0,
     errors |-> <<>>, success_count |-> 0, error_count |-> 0, last_executed |-> NoTime,
     execution_times |-> <<>>]

\* core_db QueryMetrics()
CoreDbQueryMetrics ==
    [count |-> 0, total_time |-> 0, min_time |-> Inf, max_time |-> 0, total_rows |-> 0,
     errors |-> <<>>, last_executed |-> NoTime]

\* OpenSearchMetrics()
OpenSearchMetrics ==
    [search_count |-> 0, index_count |-> 0, update_count |-> 0, delete_count |-> 0,
     bulk_count |-> 0,
     search_time |-> 0, index_time |-> 0, update_time |-> 0, delete_time |-> 0,
     bulk_time |-> 0,
     search_errors |-> 0, index_errors |-> 0, update_errors |-> 0, delete_errors |-> 0,
     bulk_errors |-> 0,
     last_search_time |-> NoTime, last_index_time |-> NoTime, last_bulk_time |-> NoTime,
     search_times |-> <<>>, index_times |-> <<>>, bulk_times |-> <<>>]

\* a plausible slip: the slice keeps the oldest samples, times[:1000]
RecentTimes_oldest(times) ==
    IF Len(times) > RecentWindow THEN SubSeq(times, 1, RecentWindow) ELSE times

\* if len(times) > 1000: times = times[-1000:]
RecentTimes(times) ==
    IF Len(times) > RecentWindow
    THEN SubSeq(times, Len(times) - RecentWindow + 1, Len(times))
    ELSE times

\* self._stats[key] of a defaultdict(factory)
DefaultGet(stats, key, factory) == IF stats[key] = Absent THEN factory ELSE stats[key]

\* core_postgres_db QueryStats._record_metrics, the body after _auto_cleanup
RecordMetrics(stats, key, exec_time, rows, status, error, operation, now) ==
    LET m == DefaultGet(stats, key, QueryMetrics)
    IN  [stats EXCEPT ![key] =
            [m EXCEPT !.count = @ + 1,
                      !.total_time = @ + exec_time,
                      !.min_time = MinTime(@, exec_time),
                      !.max_time = Max(@, exec_time),
                      !.total_rows = @ + rows,
                      !.last_executed = now,
                      !.execution_times = RecentTimes(Append(@, exec_time)),
                      !.success_count = IF status = "success" THEN @ + 1 ELSE @,
                      !.error_count = IF status = "success" THEN @ ELSE @ + 1,
                      !.errors = IF status # "success" /\ error # <<>>
                                 THEN Append(@, <<operation, error>>) ELSE @]]

\* core_db QueryStats.record_read, the body under the lock
CoreDbRecordRead(stats, key, exec_time, rows, status, error, now) ==
    LET m == DefaultGet(stats, key, CoreDbQueryMetrics)
    IN  [stats EXCEPT ![key] =
            [m EXCEPT !.count = @ + 1,
                      !.total_time = @ + exec_time,
                      !.min_time = MinTime(@, exec_time),
                      !.max_time = Max(@, exec_time),
                      !.total_rows = @ + rows,
                      !.last_executed = now,
                      !.errors = IF status = "error" /\ error # <<>>
                                 THEN Append(@, error) ELSE @]]

\* OpenSearchMetrics.record_search
RecordSearch(m, exec_time, success, now) ==
    [m EXCEPT !.search_count = @ + 1,
              !.search_time = @ + exec_time,
              !.search_times = RecentTimes(Append(@, exec_time)),
              !.last_search_time = now,
              !.search_errors = IF success THEN @ ELSE @ + 1]

\* OpenSearchMetrics.record_index
RecordIndex(m, exec_time, success, now) ==
    [m EXCEPT !.index_count = @ + 1,
              !.index_time = @ + exec_time,
              !.index_times = RecentTimes(Append(@, exec_time)),
              !.last_index_time = now,
              !.index_errors = IF success THEN @ ELSE @ + 1]

\* OpenSearchMetrics.record_bulk
RecordBulk(m, exec_time, error_count, now) ==
    [m EXCEPT !.bulk_count = @ + 1,
              !.bulk_time = @ + exec_time,
              !.bulk_times = RecentTimes(Append(@, exec_time)),
              !.last_bulk_time = now,
              !.bulk_errors = IF error_count > 0 THEN @ + 1 ELSE @]

OperationTypes == {"search", "index", "bulk", "update", "delete"}

\* OpenSearchStats.record_operation, the body after _auto_cleanup; a bulk
\* recording that did not succeed carries one failed document
RecordOperationBody(stats, operation_type, index_name, exec_time, success, now) ==
    LET m == DefaultGet(stats, index_name, OpenSearchMetrics)
    IN  [stats EXCEPT ![index_name] =
            CASE operation_type = "search" -> RecordSearch(m, exec_time, success, now)
              [] operation_type = "index" -> RecordIndex(m, exec_time, success, now)
              [] operation_type = "bulk" ->
                    RecordBulk(m, exec_time, IF success THEN 0 ELSE 1, now)
              [] operation_type = "update" ->
                    [m EXCEPT !.update_count = @ + 1,
                              !.update_time = @ + exec_time,
                              !.update_errors = IF success THEN @ ELSE @ + 1]
              [] operation_type = "delete" ->
                    [m EXCEPT !.delete_count = @ + 1,
                              !.delete_time = @ + exec_time,
                              !.delete_errors = IF success THEN @ ELSE @ + 1]]

\* x or datetime.min
OrDatetimeMin(x) == IF x = NoTime THEN DatetimeMin ELSE x

\* OpenSearchStats._auto_cleanup: last_activity of an entry
LastActivity(m) ==
    Max(OrDatetimeMin(m.last_search_time),
        Max(OrDatetimeMin(m.last_index_time), OrDatetimeMin(m.last_bulk_time)))

\* _auto_cleanup: keys_to_remove, for the class of the tracker
KeysToRemove(cls, stats, now) ==
    LET cutoff_time == now - retention_hours
    IN  IF cls = "opensearch"
        THEN {k \in Present(stats) : LastActivity(stats[k]) < cutoff_time}
        ELSE {k \in Present(stats) :
                /\ stats[k].last_executed # NoTime
                /\ stats[k].last_executed < cutoff_time}

\* a plausible slip: cleanup empties the whole tracker
AutoCleanup_all(cls, stats, now, last_cleanup) ==
    [stats |-> EmptyStats, last_cleanup |-> now, removed |-> Present(stats)]

\* QueryStats._auto_cleanup / OpenSearchStats._auto_cleanup: the tracker's
\* entries and _last_cleanup afterwards, and the keys removed; core_db's
\* QueryStats has no cleanup
AutoCleanup(cls, stats, now, last_cleanup) ==
    IF cls = "core_db" \/ now - last_cleanup < cleanup_interval
    THEN [stats |-> stats, last_cleanup |-> last_cleanup, removed |-> {}]
    ELSE LET gone == KeysToRemove(cls, stats, now)
         IN  [stats |-> [k \in PKeys |-> IF k \in gone THEN Absent ELSE stats[k]],
              last_cleanup |-> now,
              removed |-> gone]

\* statistics.quantiles(times, n=20)[18] raises StatisticsError on fewer than
\* two data points with the interpreters the packages declare (3.8 to 3.12)
\* and returns on later ones; `single_ok` is that choice of interpreter
QuantilesRaises(times, single_ok) == Len(times) = 1 /\ ~single_ok

\* snapshot() of QueryStats / get_all_stats() of OpenSearchStats raises
SnapshotRaises(cls, stats, single_ok) ==
    CASE cls = "core_postgres_db" ->
            \E k \in Present(stats) : QuantilesRaises(stats[k].execution_times, single_ok)
      [] cls = "opensearch" ->
            \E k \in Present(stats) :
                \/ QuantilesRaises(stats[k].search_times, single_ok)
                \/ QuantilesRaises(stats[k].index_times, single_ok)
                \/ QuantilesRaises(stats[k].bulk_times, single_ok)
      [] OTHER -> FALSE

\* total / count as the exact quotient
Quotient(total, count) == IF count > 0 THEN [num |-> total, den |-> count] ELSE [num |-> 0, den |-> 1]

\* one entry of QueryStats.snapshot() (both packages)
SnapshotEntry(m) ==
    [count |-> m.count,
     total_time |-> m.total_time,
     avg_time |-> Quotient(m.total_time, m.count),
     min_time |-> IF m.min_time # Inf THEN m.min_time ELSE 0,
     max_time |-> m.max_time,
     total_rows |-> m.total_rows,
     avg_rows |-> Quotient(m.total_rows, m.count)]

\* one entry of OpenSearchStats.get_all_stats(): get_index_stats
IndexStats(m) ==
    [search |-> [count |-> m.search_count, total_time |-> m.search_time,
                 errors |-> m.search_errors],
     index |-> [count |-> m.index_count, total_time |-> m.index_time,
                errors |-> m.index_errors],
     bulk |-> [count |-> m.bulk_count, total_time |-> m.bulk_time,
               errors |-> m.bulk_errors],
     update |-> [count |-> m.update_count, total_time |-> m.update_time,
                 errors |-> m.update_errors],
     delete |-> [count |-> m.delete_count, total_time |-> m.delete_time,
                 errors |-> m.delete_errors]]

\* snapshot() / get_all_stats(): the returned dict, one entry per held key
Snapshot(cls, stats) ==
    [k \in Present(stats) |->
        IF cls = "opensearch" THEN IndexStats(stats[k]) ELSE SnapshotEntry(stats[k])]

\* a plausible slip: reset() forgets to clear the entries
ResetStats_keep(stats) == stats

\* reset(): self._stats.clear()
ResetStats(stats) == EmptyStats

\* one recording by the tracker of class cls, after _auto_cleanup
RecordOnce(cls, stats, key, op, exec_time, rows, o, now) ==
    CASE cls = "core_postgres_db" ->
            RecordMetrics(stats, key, exec_time, rows, o.status, o.error, op, now)
      [] cls = "core_db" ->
            CoreDbRecordRead(stats, key, exec_time, rows, o.status, o.error, now)
      [] cls = "opensearch" ->
            RecordOperationBody(stats, op, key, exec_time, o.status = "success", now)

NoLoop == [left |-> 0, exec_time |-> 0, op |-> "none"]
NoSnapshot == [kind |-> "none"]
SuccessOutcome == [status |-> "success", error |-> <<>>]

PmInit ==
    /\ pm_cls \in StatsClasses
    /\ pm_stats = EmptyStats
    /\ pm_now = 0
    /\ pm_last_cleanup = 0
    /\ pm_hist = [k \in PKeys |-> <<>>]
    /\ pm_evicted = {}
    /\ pm_snap = NoSnapshot
    /\ pm_n = 0
    /\ pm_loop = NoLoop
    /\ pm_resets = 0

\* one recording of (key, op, exec_time, rows, o) at the hour `now`: the
\* cleanup, the entries afterwards, and the bookkeeping of what was recorded
\* for every key since its entry was created
Recording(key, op, exec_time, rows, o, now) ==
    LET c == AutoCleanup(pm_cls, pm_stats, now, pm_last_cleanup)
        e == [t |-> exec_time, rows |-> rows,
              op |-> IF pm_cls = "opensearch" THEN op ELSE "record", at |-> now]
        kept == [k \in PKeys |-> IF k \in c.removed THEN <<>> ELSE pm_hist[k]]
    IN  /\ pm_stats' = RecordOnce(pm_cls, c.stats, key, op, exec_time, rows, o, now)
        /\ pm_now' = now
        /\ pm_last_cleanup' = c.last_cleanup
        /\ pm_evicted' =
             IF c.removed = {} THEN pm_evicted
             ELSE { [key |-> k, last |-> pm_hist[k][Len(pm_hist[k])].at, now |-> now]
                      : k \in c.removed }
        /\ pm_hist' = [kept EXCEPT ![key] = Append(@, e)]
        /\ pm_snap' = NoSnapshot

\* QueryStats.record_read(key, exec_time, rows, status, error)
RecordRead ==
    /\ pm_loop.left = 0
    /\ pm_cls \in {"core_postgres_db", "core_db"}
    /\ pm_n < MaxRecords
    /\ \E key \in PKeys, exec_time \in ExecTimes, rows \in RowCounts, o \in Outcomes,
          d \in Elapsed :
        Recording(key, "read", exec_time, rows, o, pm_now + d)
    /\ pm_n' = pm_n + 1
    /\ UNCHANGED <<pm_cls, pm_loop, pm_resets>>
    /\ UNCHANGED notPm

\* QueryStats.record_write(key, exec_time, rows, status, error)
RecordWrite ==
    /\ pm_loop.left = 0
    /\ pm_cls \in {"core_postgres_db", "core_db"}
    /\ pm_n < MaxRecords
    /\ \E key \in PKeys, exec_time \in ExecTimes, rows \in RowCounts, o \in Outcomes,
          d \in Elapsed :
        Recording(key, "write", exec_time, rows, o, pm_now + d)
    /\ pm_n' = pm_n + 1
    /\ UNCHANGED <<pm_cls, pm_loop, pm_resets>>
    /\ UNCHANGED notPm

\* OpenSearchStats.record_operation(operation_type, index_name, exec_time, success)
RecordOperation ==
    /\ pm_loop.left = 0
    /\ pm_cls = "opensearch"
    /\ pm_n < MaxRecords
    /\ \E operation_type \in OperationTypes, index_name \in PKeys,
          sample \in OperationSamples, d \in Elapsed :
        Recording(index_name, operation_type, sample.exec_time, 0, sample.o, pm_now + d)
    /\ pm_n' = pm_n + 1
    /\ UNCHANGED <<pm_cls, pm_loop, pm_resets>>
    /\ UNCHANGED notPm

\* one iteration of a caller's loop that records the same successful sample
\* RecentWindow times on a fresh tracker (the shape of test_thread_safety's
\* record_queries); nothing else runs until the loop is through
RecordLoop ==
    /\ IF pm_loop.left > 0
       THEN /\ Recording("k1", pm_loop.op, pm_loop.exec_time, 0, SuccessOutcome, pm_now)
            /\ pm_loop' = [pm_loop EXCEPT !.left = @ - 1]
       ELSE /\ pm_n = 0
            /\ pm_loop.op = "none"
            /\ pm_resets = 0
            /\ \E op \in IF pm_cls = "opensearch" THEN OperationTypes ELSE {"read"} :
                /\ Recording("k1", op, 1, 0, SuccessOutcome, pm_now)
                /\ pm_loop' = [left |-> RecentWindow - 1, exec_time |-> 1, op |-> op]
    /\ UNCHANGED <<pm_cls, pm_n, pm_resets>>
    /\ UNCHANGED notPm

\* QueryStats.snapshot() / OpenSearchStats.get_all_stats()
SnapshotCall ==
    /\ pm_loop.left = 0
    /\ \E single_ok \in BOOLEAN :
        pm_snap' = IF SnapshotRaises(pm_cls, pm_stats, single_ok)
                   THEN [kind |-> "raised"]
                   ELSE [kind |-> "returned", value |-> Snapshot(pm_cls, pm_stats)]
    /\ pm_snap' # pm_snap
    /\ UNCHANGED <<pm_cls, pm_stats, pm_now, pm_last_cleanup, pm_hist, pm_evicted, pm_n,
                   pm_loop, pm_resets>>
    /\ UNCHANGED notPm

\* QueryStats.reset() / OpenSearchStats.reset()
Reset ==
    /\ pm_loop.left = 0
    /\ pm_n > 0 \/ pm_loop.op # "none"
    /\ pm_resets < MaxResets
    /\ pm_stats' = ResetStats(pm_stats)
    /\ pm_last_cleanup' = IF pm_cls = "core_db" THEN pm_last_cleanup ELSE pm_now
    /\ pm_hist' = [k \in PKeys |-> <<>>]
    /\ pm_snap' = NoSnapshot
    /\ pm_resets' = pm_resets + 1
    /\ UNCHANGED <<pm_cls, pm_now, pm_evicted, pm_n, pm_loop>>
    /\ UNCHANGED notPm

PmNext ==
    \/ RecordRead
    \/ RecordWrite
    \/ RecordOperation
    \/ RecordLoop
    \/ SnapshotCall
    \/ Reset

PmIdle ==
    /\ pm_cls = "core_db"
    /\ pm_stats = EmptyStats
    /\ pm_now = 0
    /\ pm_last_cleanup = 0
    /\ pm_hist = [k \in PKeys |-> <<>>]
    /\ pm_evicted = {}
    /\ pm_snap = NoSnapshot
    /\ pm_n = MaxRecords
    /\ pm_loop = [left |-> 0, exec_time |-> 1, op |-> "read"]
    /\ pm_resets = MaxResets

(***************************************************************************)
(* Threads calling QueryStats.record_read concurrently.  `stats.count += 1`*)
(* is a load and a store; the lock taken by `with self._lock:` is what     *)
(* keeps another thread from running between them.                         *)
(***************************************************************************)
Threads == {"t1", "t2"}
NoThread == "NoThread"
FreeLock == [owner |-> NoThread, depth |-> 0]

\* a plausible slip: the body runs without taking the lock
CanAcquire_unguarded(lock, t) == TRUE

\* threading.RLock().acquire() / threading.Lock().acquire() by a thread that
\* does not hold it: possible when no thread holds the lock
CanAcquire(lock, t) == lock.owner = NoThread

ThInit ==
    /\ pm_lock = FreeLock
    /\ th_pc = [t \in Threads |-> "idle"]
    /\ th_key = [t \in Threads |-> "k1"]
    /\ th_tmp = [t \in Threads |-> 0]
    /\ th_left = [t \in Threads |-> MaxCalls]
    /\ th_done = [k \in PKeys |-> 0]

\* record_read enters `with self._lock:` (core_postgres_db: then
\* _auto_cleanup, which returns at once within the cleanup interval)
ThreadAcquire(t) ==
    /\ th_pc[t] = "idle"
    /\ th_left[t] > 0
    /\ CanAcquire(pm_lock, t)
    /\ pm_lock' = [owner |-> t, depth |-> 1]
    /\ \E key \in PKeys : th_key' = [th_key EXCEPT ![t] = key]
    /\ th_pc' = [th_pc EXCEPT ![t] = "locked"]
    /\ UNCHANGED <<th_tmp, th_left, th_done>>
    /\ UNCHANGED pmVars
    /\ UNCHANGED notTh

\* stats = self._stats[key]; the load of stats.count
ThreadLoad(t) ==
    /\ th_pc[t] = "locked"
    /\ th_tmp' = [th_tmp EXCEPT ![t] =
                    DefaultGet(pm_stats, th_key[t],
                               IF pm_cls = "core_db" THEN CoreDbQueryMetrics
                               ELSE QueryMetrics).count]
    /\ th_pc' = [th_pc EXCEPT ![t] = "loaded"]
    /\ UNCHANGED <<pm_lock, th_key, th_left, th_done>>
    /\ UNCHANGED pmVars
    /\ UNCHANGED notTh

\* the store of stats.count, the rest of the body, and the release of the lock
ThreadStore(t) ==
    /\ th_pc[t] = "loaded"
    /\ LET key == th_key[t]
           st == RecordOnce(pm_cls, pm_stats, key, "read", 1, 1, SuccessOutcome, pm_now)
       IN  /\ pm_stats' = [st EXCEPT ![key].count = th_tmp[t] + 1]
           /\ pm_hist' = [pm_hist EXCEPT ![key] =
                            Append(@, [t |-> 1, rows |-> 1, op |-> "read", at |-> pm_now])]
           /\ th_done' = [th_done EXCEPT ![key] = @ + 1]
    /\ pm_lock' = IF pm_lock.owner = t THEN FreeLock ELSE pm_lock
    /\ th_left' = [th_left EXCEPT ![t] = @ - 1]
    /\ th_pc' = [th_pc EXCEPT ![t] = "idle"]
    /\ UNCHANGED <<th_key, th_tmp>>
    /\ UNCHANGED <<pm_cls, pm_now, pm_last_cleanup, pm_evicted, pm_snap, pm_n,
                   pm_loop, pm_resets>>
    /\ UNCHANGED notTh

ThNext == \E t \in Threads : ThreadAcquire(t) \/ ThreadLoad(t) \/ ThreadStore(t)

ThIdle ==
    /\ pm_lock = FreeLock
    /\ th_pc = [t \in Threads |-> "idle"]
    /\ th_key = [t \in Threads |-> "k1"]
    /\ th_tmp = [t \in Threads |-> 0]
    /\ th_left = [t \in Threads |-> 0]
    /\ th_done = [k \in PKeys |-> 0]

(***************************************************************************)
(* SyncPostgresDB.create (core_postgres_db/sync_postgres.py) and           *)
(* BaseDatabaseOperations._handle_integrity_error (base_operations.py)     *)
(***************************************************************************)
MAX_DEADLOCK_RETRIES == 3
DUPLICATE_KEY_ERROR == s_duplicate_key
CONSTRAINT_VIOLATION_ERROR == <<"v","i","o","l","a","t","e","s">>

s_test_users == <<"t","e","s","t","_","u","s","e","r","s">>
s_connections == <<"c","o","n","n","e","c","t","i","o","n","s">>
\* str() of what the driver raises: a unique violation and a foreign-key
\* violation as an English server words them, a unique violation as a server
\* with another lc_messages words it, and a lost connection
s_unique_en == <<"d","u","p","l","i","c","a","t","e"," ","k","e","y"," ","v","a","l","u","e"," ","v","i","o","l","a","t","e","s"," ","u","n","i","q","u","e"," ","c","o","n","s","t","r","a","i","n","t">>
s_unique_it == <<"u","n"," ","v","a","l","o","r","e"," ","c","h","i","a","v","e"," ","d","u","p","l","i","c","a","t","o"," ","v","i","o","l","a"," ","i","l"," ","v","i","n","c","o","l","o"," ","u","n","i","v","o","c","o">>
s_foreign_key == <<"i","n","s","e","r","t"," ","o","r"," ","u","p","d","a","t","e"," ","o","n"," ","t","a","b","l","e"," ","v","i","o","l","a","t","e","s"," ","f","o","r","e","i","g","n"," ","k","e","y"," ","c","o","n","s","t","r","a","i","n","t">>
s_server_closed == <<"s","e","r","v","e","r"," ","c","l","o","s","e","d"," ","t","h","e"," ","c","o","n","n","e","c","t","i","o","n"," ","u","n","e","x","p","e","c","t","e","d","l","y">>
s_Duplicate_entry_in == <<"D","u","p","l","i","c","a","t","e"," ","e","n","t","r","y"," ","i","n"," ">>
s_Constraint_violation_in == <<"C","o","n","s","t","r","a","i","n","t"," ","v","i","o","l","a","t","i","o","n"," ","i","n"," ">>
s_Integrity_error_in == <<"I","n","t","e","g","r","i","t","y"," ","e","r","r","o","r"," ","i","n"," ">>
s_Database_error_in == <<"D","a","t","a","b","a","s","e"," ","e","r","r","o","r"," ","i","n"," ">>
s_for_table == <<" ","f","o","r"," ","t","a","b","l","e"," ","'">>
s_quote_colon == <<"'",":"," ">>
s_Integrity_error == <<"I","n","t","e","g","r","i","t","y"," ","e","r","r","o","r",":"," ">>
s_Duplicate_entry == <<"D","u","p","l","i","c","a","t","e"," ","e","n","t","r","y",":"," ">>
s_Constraint_violation == <<"C","o","n","s","t","r","a","i","n","t"," ","v","i","o","l","a","t","i","o","n",":"," ">>
s_Data_cannot_be_empty == <<"D","a","t","a"," ","c","a","n","n","o","t"," ","b","e"," ","e","m","p","t","y"," ","f","o","r"," ">>
s_create == <<"c","r","e","a","t","e">>

Tables == {s_test_users, s_connections}
Emails == {"a@x"}
Parents == {"p1", "missing"}
LcMessages == {"en", "it"}
EmptyData == [email |-> "none", parent |-> "none"]
DataValues == {EmptyData} \cup [email : Emails, parent : Parents]

\* exceptions.py: the message each constructor hands up to DatabaseError
RaiseDatabaseError(message) == [cls |-> "DatabaseError", message |-> message]
RaiseDuplicateEntryError(message) ==
    [cls |-> "DuplicateEntryError",
     message |-> s_Integrity_error \o s_Duplicate_entry \o message]
RaiseConstraintViolationError(message) ==
    [cls |-> "ConstraintViolationError",
     message |-> s_Integrity_error \o s_Constraint_violation \o message]

\* f"... {operation} for table '{table_name}': {error}"
InOperation(prefix, operation, table_name, error) ==
    prefix \o operation \o s_for_table \o table_name \o s_quote_colon \o error

\* a plausible slip: the 'violates' test comes first
HandleIntegrityError_violatesFirst(error, operation, table_name) ==
    LET error_msg == Lower(error)
    IN  IF StrIn(CONSTRAINT_VIOLATION_ERROR, error_msg)
        THEN RaiseConstraintViolationError(
                 InOperation(s_Constraint_violation_in, operation, table_name, error))
        ELSE IF StrIn(DUPLICATE_KEY_ERROR, error_msg)
        THEN RaiseDuplicateEntryError(
                 InOperation(s_Duplicate_entry_in, operation, table_name, error))
        ELSE RaiseDatabaseError(
                 InOperation(s_Integrity_error_in, operation, table_name, error))

\* _handle_integrity_error: the exception it raises
HandleIntegrityError(error, operation, table_name) ==
    LET error_msg == Lower(error)
    IN  IF StrIn(DUPLICATE_KEY_ERROR, error_msg)
        THEN RaiseDuplicateEntryError(
                 InOperation(s_Duplicate_entry_in, operation, table_name, error))
        ELSE IF StrIn(CONSTRAINT_VIOLATION_ERROR, error_msg)
        THEN RaiseConstraintViolationError(
                 InOperation(s_Constraint_violation_in, operation, table_name, error))
        ELSE RaiseDatabaseError(
                 InOperation(s_Integrity_error_in, operation, table_name, error))

\* _handle_database_error
HandleDatabaseError(error, operation, table_name) ==
    RaiseDatabaseError(InOperation(s_Database_error_in, operation, table_name, error))

\* conn.execute(insert(table).values(**data)): the table has a unique email
\* and a foreign key to a parent row; `fault` is a connection lost under way
\* (the first `faults` attempts of a call lose theirs)
Execute(rows, table_name, data, lc, fault) ==
    IF fault
    THEN [kind |-> "OperationalError", msg |-> s_server_closed]
    ELSE IF data.email \in rows[table_name]
    THEN [kind |-> "IntegrityError",
          msg |-> IF lc = "en" THEN s_unique_en ELSE s_unique_it]
    ELSE IF data.parent = "missing"
    THEN [kind |-> "IntegrityError", msg |-> s_foreign_key]
    ELSE [kind |-> "ok", msg |-> <<>>]

Raised(exc, rows, driver) ==
    [kind |-> "raised", cls |-> exc.cls, message |-> exc.message,
     value |-> "None", rows |-> rows, driver |-> driver]

\* the body of create: what it returns or raises, and the table afterwards
CreateBody(rows, table_name, data, returning, lc, fault) ==
    IF data = EmptyData
    THEN Raised([cls |-> "ValueError", message |-> s_Data_cannot_be_empty \o s_create],
                rows, [kind |-> "none", msg |-> <<>>])
    ELSE
      LET r == Execute(rows, table_name, data, lc, fault)
      IN  CASE r.kind = "ok" ->
                 [kind |-> "returned", cls |-> "none", message |-> <<>>,
                  value |-> IF returning THEN data.email ELSE "None",
                  rows |-> [rows EXCEPT ![table_name] = @ \cup {data.email}],
                  driver |-> r]
            [] r.kind = "IntegrityError" ->
                 Raised(HandleIntegrityError(r.msg, s_create, table_name), rows, r)
            [] OTHER ->
                 Raised(HandleDatabaseError(r.msg, s_create, table_name), rows, r)

\* @retry_on_deadlock(max_retries=MAX_DEADLOCK_RETRIES) around create (the
\* sync @timeout and @log_query_execution wrappers only log and re-raise)
RECURSIVE CreateAttempt(_, _, _, _, _, _, _)
CreateAttempt(rows, table_name, data, returning, lc, faults, attempt) ==
    LET after(r) ==
            IF /\ r.kind = "raised"
               /\ ~(~IsRetryableError([msg |-> r.message]) \/ attempt >= MAX_DEADLOCK_RETRIES - 1)
            THEN CreateAttempt(rows, table_name, data, returning, lc, faults, attempt + 1)
            ELSE r @@ [attempts |-> attempt + 1]
        outcomes ==
            {after(r) : r \in {CreateBody(rows, table_name, data, returning, lc,
                                          attempt < faults)}}
    IN  CHOOSE y \in outcomes : TRUE

NoCall ==
    [kind |-> "none", cls |-> "none", message |-> <<>>, value |-> "None",
     driver |-> [kind |-> "none", msg |-> <<>>], attempts |-> 0,
     table_name |-> <<>>, data |-> EmptyData, present |-> FALSE]

CrInit ==
    /\ cr_rows = [t \in Tables |-> {}]
    /\ cr_lc \in LcMessages
    /\ cr_out = NoCall

\* db.create(table_name, data, returning)
Create ==
    /\ \E table_name \in Tables, data \in DataValues, returning \in BOOLEAN,
          faults \in 0..MAX_DEADLOCK_RETRIES :
         \E r \in {CreateAttempt(cr_rows, table_name, data, returning, cr_lc, faults, 0)} :
             /\ cr_rows' = r.rows
             /\ cr_out' = [kind |-> r.kind, cls |-> r.cls, message |-> r.message,
                           value |-> r.value, driver |-> r.driver,
                           attempts |-> r.attempts, table_name |-> table_name,
                           data |-> data,
                           present |-> data.email \in cr_rows[table_name]]
    /\ UNCHANGED cr_lc
    /\ UNCHANGED notCr

CrNext == Create

CrIdle ==
    /\ cr_rows = [t \in Tables |-> {}]
    /\ cr_lc = "en"
    /\ cr_out = NoCall

(***************************************************************************)
(* wrap_opensearch_error (core_opensearch/exceptions.py)                   *)
(***************************************************************************)
s_index_not_found == <<"i","n","d","e","x","_","n","o","t","_","f","o","u","n","d">>
s_not_found == <<"n","o","t","_","f","o","u","n","d">>
s_authentication == <<"a","u","t","h","e","n","t","i","c","a","t","i","o","n">>
s_unauthorized == <<"u","n","a","u","t","h","o","r","i","z","e","d">>
s_bulk == <<"b","u","l","k">>
s_query == <<"q","u","e","r","y">>
s_search == <<"s","e","a","r","c","h">>
s_resource_already_exists == <<"r","e","s","o","u","r","c","e","_","a","l","r","e","a","d","y","_","e","x","i","s","t","s">>
s_mapping == <<"m","a","p","p","i","n","g">>
s_colon == <<":"," ">>
s_Connection_error == <<"C","o","n","n","e","c","t","i","o","n"," ","e","r","r","o","r",":"," ">>
s_Timeout_error == <<"T","i","m","e","o","u","t"," ","e","r","r","o","r",":"," ">>
s_Operation_timeout_after == <<"O","p","e","r","a","t","i","o","n"," ","t","i","m","e","o","u","t"," ","a","f","t","e","r"," ">>
s_seconds == <<" ","s","e","c","o","n","d","s",":"," ">>
s_Authentication_error == <<"A","u","t","h","e","n","t","i","c","a","t","i","o","n"," ","e","r","r","o","r",":"," ">>
s_Index == <<"I","n","d","e","x"," ","'">>
s_not_found_tail == <<"'"," ","n","o","t"," ","f","o","u","n","d">>
s_Document == <<"D","o","c","u","m","e","n","t"," ","'">>
s_not_found_in_index == <<"'"," ","n","o","t"," ","f","o","u","n","d"," ","i","n"," ","i","n","d","e","x"," ","'">>
s_quote == <<"'">>
s_Bulk_operation_error == <<"B","u","l","k"," ","o","p","e","r","a","t","i","o","n"," ","e","r","r","o","r",":"," ">>
s_Search_query_error == <<"S","e","a","r","c","h"," ","q","u","e","r","y"," ","e","r","r","o","r",":"," ">>
s_Mapping_error == <<"M","a","p","p","i","n","g"," ","e","r","r","o","r",":"," ">>
s_Mapping_error_for_field == <<"M","a","p","p","i","n","g"," ","e","r","r","o","r"," ","f","o","r"," ","f","i","e","l","d"," ","'">>
s_Version_conflict_for == <<"V","e","r","s","i","o","n"," ","c","o","n","f","l","i","c","t"," ","f","o","r"," ","d","o","c","u","m","e","n","t"," ","'">>
s_in_index == <<"'"," ","i","n"," ","i","n","d","e","x"," ","'">>
s_already_exists == <<"'"," ","a","l","r","e","a","d","y"," ","e","x","i","s","t","s">>
s_space_quote == <<" ","'">>
\* str() of driver exceptions, one or more for every branch
e_no_such_index == <<"n","o"," ","s","u","c","h"," ","i","n","d","e","x"," ","[","i","n","d","e","x","_","n","o","t","_","f","o","u","n","d","_","e","x","c","e","p","t","i","o","n","]">>
e_document_missing == <<"d","o","c","u","m","e","n","t","_","m","i","s","s","i","n","g","_","e","x","c","e","p","t","i","o","n">>
e_result_not_found == <<"\"","r","e","s","u","l","t","\"",":","\"","n","o","t","_","f","o","u","n","d","\"">>
e_Unauthorized == <<"U","n","a","u","t","h","o","r","i","z","e","d">>
e_AuthenticationException == <<"A","u","t","h","e","n","t","i","c","a","t","i","o","n","E","x","c","e","p","t","i","o","n","(","4","0","1",")">>
e_ConnectionTimeout == <<"C","o","n","n","e","c","t","i","o","n","T","i","m","e","o","u","t"," ","c","a","u","s","e","d"," ","b","y"," ","R","e","a","d","T","i","m","e","o","u","t","E","r","r","o","r">>
e_rejected_bulk == <<"r","e","j","e","c","t","e","d"," ","e","x","e","c","u","t","i","o","n"," ","o","f"," ","b","u","l","k"," ","r","e","q","u","e","s","t">>
e_parsing_query == <<"p","a","r","s","i","n","g","_","e","x","c","e","p","t","i","o","n",":"," ","u","n","k","n","o","w","n"," ","q","u","e","r","y">>
e_search_phase == <<"s","e","a","r","c","h","_","p","h","a","s","e","_","e","x","e","c","u","t","i","o","n","_","e","x","c","e","p","t","i","o","n">>
e_resource_exists == <<"r","e","s","o","u","r","c","e","_","a","l","r","e","a","d","y","_","e","x","i","s","t","s","_","e","x","c","e","p","t","i","o","n">>
e_strict_mapping == <<"s","t","r","i","c","t","_","d","y","n","a","m","i","c","_","m","a","p","p","i","n","g","_","e","x","c","e","p","t","i","o","n">>
e_found_false == <<"N","o","t","F","o","u","n","d","E","r","r","o","r","(","4","0","4",","," ","\"","f","o","u","n","d","\"",":","f","a","l","s","e",")">>
c_Search_failed == <<"S","e","a","r","c","h"," ","f","a","i","l","e","d"," ","f","o","r"," ","i","n","d","e","x"," ","p","r","o","d","u","c","t","s">>

\* the subclasses of OpenSearchError (EXCEPTION_HIERARCHY) and the base class
OpenSearchErrorClasses ==
    {"OpenSearchError", "ConnectionError", "TimeoutError", "AuthenticationError",
     "IndexNotFoundError", "DocumentNotFoundError", "BulkOperationError",
     "SearchQueryError", "MappingError", "VersionConflictError",
     "ResourceExistsError", "ConfigurationError"}

\* a driver exception: its type name and its str(); like every exception
\* that defines neither __bool__ nor __len__ it is truthy and has no len()
DriverError(cls, msg) == [cls |-> cls, msg |-> msg]

DriverMessages ==
    {e_no_such_index, e_document_missing, e_result_not_found,
     s_version_conflict_engine_exception, e_Unauthorized, e_AuthenticationException,
     e_ConnectionTimeout, s_Connection_refused, e_rejected_bulk, e_parsing_query,
     e_search_phase, e_resource_exists, e_strict_mapping, e_found_false,
     s_mapper_parsing_exception, s_boom, <<>>}
DriverClasses == {"TransportError", "Exception"}
WrapContexts == {<<>>, c_Search_failed}

\* OpenSearchError.__init__
NewOpenSearchError(cls, message, original_error) ==
    [kind |-> "returned", cls |-> cls, message |-> message,
     original_error |-> original_error]
NoOriginal == [cls |-> "None", msg |-> <<>>]

\* exc_class(message, error): the two positional arguments land on the
\* first two parameters of each constructor
Construct(exc_class, message, error) ==
    CASE exc_class = "IndexNotFoundError" ->
           NewOpenSearchError(exc_class, s_Index \o message \o s_not_found_tail, error)
      [] exc_class = "DocumentNotFoundError" ->
           NewOpenSearchError(exc_class,
               s_Document \o error.msg \o s_not_found_in_index \o message \o s_quote,
               NoOriginal)
      [] exc_class = "VersionConflictError" ->
           NewOpenSearchError(exc_class,
               s_Version_conflict_for \o error.msg \o s_in_index \o message \o s_quote,
               NoOriginal)
      [] exc_class = "AuthenticationError" ->
           NewOpenSearchError(exc_class, s_Authentication_error \o message, error)
      [] exc_class = "TimeoutError" ->
           \* timeout_seconds = error, truthy
           NewOpenSearchError(exc_class,
               s_Timeout_error \o s_Operation_timeout_after \o error.msg
                   \o s_seconds \o message,
               NoOriginal)
      [] exc_class = "ConnectionError" ->
           NewOpenSearchError(exc_class, s_Connection_error \o message, error)
      [] exc_class = "BulkOperationError" ->
           \* errors = error, truthy: len(errors) raises
           [kind |-> "raised", cls |-> "TypeError", message |-> <<>>,
            original_error |-> NoOriginal]
      [] exc_class = "SearchQueryError" ->
           NewOpenSearchError(exc_class, s_Search_query_error \o message, NoOriginal)
      [] exc_class = "ResourceExistsError" ->
           NewOpenSearchError(exc_class,
               message \o s_space_quote \o error.msg \o s_already_exists, NoOriginal)
      [] exc_class = "MappingError" ->
           NewOpenSearchError(exc_class,
               s_Mapping_error \o s_Mapping_error_for_field \o error.msg
                   \o s_quote_colon \o message,
               NoOriginal)
      [] OTHER ->
           NewOpenSearchError(exc_class, message, error)

\* the if/elif chain of wrap_opensearch_error
ExcClass(error_message) ==
    IF StrIn(s_index_not_found, error_message) THEN "IndexNotFoundError"
    ELSE IF StrIn(s_document_missing, error_message) \/ StrIn(s_not_found, error_message)
    THEN "DocumentNotFoundError"
    ELSE IF StrIn(s_version_conflict, error_message) THEN "VersionConflictError"
    ELSE IF StrIn(s_authentication, error_message) \/ StrIn(s_unauthorized, error_message)
    THEN "AuthenticationError"
    ELSE IF StrIn(s_timeout, error_message) THEN "TimeoutError"
    ELSE IF StrIn(s_connection, error_message) THEN "ConnectionError"
    ELSE IF StrIn(s_bulk, error_message) THEN "BulkOperationError"
    ELSE IF StrIn(s_query, error_message) \/ StrIn(s_search, error_message)
    THEN "SearchQueryError"
    ELSE IF StrIn(s_resource_already_exists, error_message) THEN "ResourceExistsError"
    ELSE IF StrIn(s_mapping, error_message) THEN "MappingError"
    ELSE "OpenSearchError"

\* wrap_opensearch_error(error, context): the exception it returns, or the
\* one it raises; a context of None is the empty text
WrapOpenSearchError(error, context) ==
    LET wrapped(error_message) ==
            Construct(ExcClass(error_message),
                      IF context # <<>>
                      THEN context \o s_colon \o error_message
                      ELSE error_message,
                      error)
    IN  CHOOSE w \in {wrapped(m) : m \in {Lower(error.msg)}} : TRUE

NotWrapped ==
    [kind |-> "none", cls |-> "none", message |-> <<>>, original_error |-> NoOriginal]

WrInit ==
    /\ wr_error \in {DriverError(c, msg) : c \in DriverClasses, msg \in DriverMessages}
    /\ wr_context \in WrapContexts
    /\ wr_out = NotWrapped

\* except Exception as e: raise wrap_opensearch_error(e, error_context)
Wrap ==
    /\ wr_out = NotWrapped
    /\ wr_out' = WrapOpenSearchError(wr_error, wr_context)
    /\ UNCHANGED <<wr_error, wr_context>>
    /\ UNCHANGED notWr

WrNext == Wrap

WrIdle ==
    /\ wr_error = DriverError("Exception", s_boom)
    /\ wr_context = <<>>
    /\ wr_out = NotWrapped

(***************************************************************************)
(* index_document / get_document / delete_document                        *)
(* (core_opensearch/sync_opensearch.py, async_opensearch.py) and           *)
(* OpenSearchUtils.normalize_document (utils.py)                           *)
(***************************************************************************)
\* Python values, tagged with their type; a document (dict) is the set of
\* its items [k, v]
NoneValue == [t |-> "None", v |-> "None"]
StrValue(s) == [t |-> "str", v |-> s]
IntValue(n) == [t |-> "int", v |-> n]
FloatValue(x) == [t |-> "float", v |-> x]
DecimalValue(x) == [t |-> "Decimal", v |-> x]
\* a datetime, named by its ISO 8601 text
DatetimeValue(iso) == [t |-> "datetime", v |-> iso]
DictValue(d) == [t |-> "dict", v |-> d]
ListValue(l) == [t |-> "list", v |-> l]
\* an object with a __dict__
ObjectValue(d) == [t |-> "object", v |-> d]
Item(k, v) == [k |-> k, v |-> v]

RECURSIVE NormalizeDocument(_), NormalizeValue(_)
\* OpenSearchUtils.normalize_document
NormalizeDocument(document) ==
    {Item(f.k, NormalizeValue(f.v)) : f \in {g \in document : g.v.t # "None"}}

\* OpenSearchUtils._normalize_value
NormalizeValue(value) ==
    CASE value.t = "datetime" -> StrValue(value.v)
      [] value.t = "Decimal" -> FloatValue(value.v)
      [] value.t = "dict" -> DictValue(NormalizeDocument(value.v))
      [] value.t = "list" ->
            ListValue([i \in 1..Len(value.v) |-> NormalizeValue(value.v[i])])
      [] value.t = "object" -> DictValue(NormalizeDocument(value.v))
      [] OTHER -> value

\* the documents handed to index_document
Documents ==
    { {Item("name", StrValue("x")), Item("price", NoneValue)},
      {Item("name", NoneValue)},
      {Item("price", DecimalValue("10.5")), Item("at", DatetimeValue("2024-01-15T10:30:00"))},
      {Item("meta", DictValue({Item("n", NoneValue), Item("m", IntValue(7))})),
       Item("tags", ListValue(<<NoneValue, DatetimeValue("2024-01-15T10:30:00")>>)),
       Item("owner", ObjectValue({Item("id", IntValue(7)), Item("nick", NoneValue)}))},
      {Item("_id", StrValue("x"))} }

MetaFields == {"_id", "_index", "_version"}
DocIds == {"1"}
AutoIds == {"a1"}
s_products == <<"p","r","o","d","u","c","t","s">>
s_logs == <<"l","o","g","s">>
ReadIndices == {s_products, s_logs}
Clients == {"sync", "async"}

NoEntry == [present |-> FALSE, source |-> {}, version |-> 0]
EmptyStore == [i \in DocIds \cup AutoIds |-> NoEntry]

\* what the cluster answers: a response, or an exception with its str()
Response(fields) == [kind |-> "response", fields |-> fields, msg |-> <<>>]
DriverRaises(msg) == [kind |-> "error", fields |-> {}, msg |-> msg]

\* client.index(index, body, id): the server refuses metadata fields inside
\* the body; without id it makes one up
DriverIndex(store, body, id) ==
    IF \E f \in body : f.k \in MetaFields
    THEN [store |-> store, r |-> DriverRaises(s_mapper_parsing_exception)]
    ELSE [store |-> [store EXCEPT ![id] =
                        [present |-> TRUE, source |-> body, version |-> @.version + 1]],
          r |-> Response({Item("_id", StrValue(id)),
                          Item("result", StrValue(IF store[id].present
                                                  THEN "updated" ELSE "created"))})]

\* client.get(index, id): a 404 is raised as NotFoundError, whose str() holds
\* the error type for a missing index and the response body for a missing
\* document; `as_response` is a transport that hands the body back instead
DriverGet(store, exists, index_name, id, as_response) ==
    IF ~exists \/ index_name # s_products
    THEN DriverRaises(e_no_such_index)
    ELSE IF store[id].present
    THEN Response({Item("found", [t |-> "bool", v |-> TRUE]),
                   Item("_source", DictValue(store[id].source)),
                   Item("_id", StrValue(id)),
                   Item("_index", StrValue(index_name)),
                   Item("_version", IntValue(store[id].version))})
    ELSE IF as_response
    THEN Response({Item("found", [t |-> "bool", v |-> FALSE]),
                   Item("_id", StrValue(id)), Item("_index", StrValue(index_name))})
    ELSE DriverRaises(e_found_false)

\* client.delete(index, id)
DriverDelete(store, exists, index_name, id) ==
    IF ~exists \/ index_name # s_products
    THEN [store |-> store, r |-> DriverRaises(e_no_such_index)]
    ELSE IF store[id].present
    THEN [store |-> [store EXCEPT ![id] =
                        [present |-> FALSE, source |-> {}, version |-> @.version + 1]],
          r |-> Response({Item("result", StrValue("deleted"))})]
    ELSE [store |-> store, r |-> DriverRaises(e_result_not_found)]

\* response.get(key, default)
ResponseGet(fields, key, default) ==
    IF \E f \in fields : f.k = key
    THEN (CHOOSE f \in fields : f.k = key).v
    ELSE default

\* doc[key] = value
SetItem(doc, key, value) == {f \in doc : f.k # key} \cup {Item(key, value)}

\* a plausible slip: the not_found test never matches
IsNotFound_never(e) == FALSE

\* "not_found" in str(e)
IsNotFound(e) == StrIn(s_not_found, e.msg)

\* a plausible slip: the source is returned as it is
DecorateSource_bare(fields) == ResponseGet(fields, "_source", DictValue({})).v

\* get_document, found: doc = _source with _id, _index and _version set
DecorateSource(fields) ==
    SetItem(SetItem(SetItem(ResponseGet(fields, "_source", DictValue({})).v,
                            "_id", ResponseGet(fields, "_id", NoneValue)),
                    "_index", ResponseGet(fields, "_index", NoneValue)),
            "_version", ResponseGet(fields, "_version", NoneValue))

\* the outcome of a call: vkind says what value is "doc" | "None" | "bool" | "id"
Returns(vkind, doc, flag, id) ==
    [kind |-> "returned", vkind |-> vkind, doc |-> doc, flag |-> flag, id |-> id,
     cls |-> "none"]
Raises(wrapped) ==
    [kind |-> "raised", vkind |-> "None", doc |-> {}, flag |-> FALSE, id |-> NoId,
     cls |-> wrapped.cls]

c_Get_document_failed == <<"G","e","t"," ","d","o","c","u","m","e","n","t"," ","f","a","i","l","e","d">>
c_Delete_document_failed == <<"D","e","l","e","t","e"," ","d","o","c","u","m","e","n","t"," ","f","a","i","l","e","d">>
c_Index_document_failed == <<"I","n","d","e","x"," ","d","o","c","u","m","e","n","t"," ","f","a","i","l","e","d">>

NoDocCall ==
    [op |-> "none", index_name |-> <<>>, document_id |-> NoId, document |-> {},
     driver |-> DriverRaises(<<>>), kind |-> "none", vkind |-> "None", doc |-> {},
     flag |-> FALSE, id |-> NoId, cls |-> "none", stored |-> NoEntry]

Called(op, index_name, document_id, document, driver, out, stored) ==
    [op |-> op, index_name |-> index_name, document_id |-> document_id,
     document |-> document, driver |-> driver, kind |-> out.kind,
     vkind |-> out.vkind, doc |-> out.doc, flag |-> out.flag, id |-> out.id,
     cls |-> out.cls, stored |-> stored]

DsInit ==
    /\ ds_cls \in Clients
    /\ ds_store = EmptyStore
    /\ ds_exists = FALSE
    /\ ds_written = [i \in DocIds \cup AutoIds |-> {}]
    /\ ds_n = 0
    /\ ds_out = NoDocCall

\* index_document(index_name, document, document_id)
IndexDocument ==
    /\ ds_n < MaxIndexed
    /\ \E document \in Documents, document_id \in DocIds \cup {NoId} :
       \E id \in IF document_id # NoId THEN {document_id}
                 ELSE {a \in AutoIds : ~ds_store[a].present /\ ds_store[a].version = 0} :
       \E normalized_doc \in {NormalizeDocument(document)} :
       \E d \in {DriverIndex(ds_store, normalized_doc, id)} :
          /\ ds_store' = d.store
          /\ ds_exists' = (ds_exists \/ d.r.kind = "response")
          /\ ds_written' = IF d.r.kind = "response"
                           THEN [ds_written EXCEPT ![id] = document]
                           ELSE ds_written
          /\ ds_out' = Called("index_document", s_products, document_id, document, d.r,
                           IF d.r.kind = "response"
                           THEN Returns("id", {}, FALSE,
                                    ResponseGet(d.r.fields, "_id", StrValue(document_id)).v)
                           ELSE Raises(WrapOpenSearchError(
                                    DriverError("RequestError", d.r.msg),
                                    c_Index_document_failed)),
                           d.store[id])
    /\ ds_n' = ds_n + 1
    /\ UNCHANGED ds_cls
    /\ UNCHANGED notDs

\* get_document(index_name, document_id), source left at None
GetDocument ==
    /\ \E index_name \in ReadIndices, document_id \in DocIds \cup AutoIds,
          as_response \in BOOLEAN :
       \E r \in {DriverGet(ds_store, ds_exists, index_name, document_id, as_response)} :
          ds_out' = Called("get_document", index_name, document_id, {}, r,
                        IF r.kind = "response"
                        THEN IF ResponseGet(r.fields, "found", [t |-> "bool", v |-> FALSE]).v
                             THEN Returns("doc", DecorateSource(r.fields), FALSE, NoId)
                             ELSE Returns("None", {}, FALSE, NoId)
                        ELSE IF IsNotFound(r)
                        THEN Returns("None", {}, FALSE, NoId)
                        ELSE Raises(WrapOpenSearchError(
                                 DriverError("NotFoundError", r.msg),
                                 c_Get_document_failed)),
                        ds_store[document_id])
    /\ ds_out' # ds_out
    /\ UNCHANGED <<ds_cls, ds_store, ds_exists, ds_written, ds_n>>
    /\ UNCHANGED notDs

\* delete_document(index_name, document_id)
DeleteDocument ==
    /\ \E index_name \in ReadIndices, document_id \in DocIds \cup AutoIds :
       \E d \in {DriverDelete(ds_store, ds_exists, index_name, document_id)} :
          /\ ds_store' = d.store
          /\ ds_written' = IF d.r.kind = "response"
                           THEN [ds_written EXCEPT ![document_id] = {}]
                           ELSE ds_written
          /\ ds_out' = Called("delete_document", index_name, document_id, {}, d.r,
                           IF d.r.kind = "response"
                           THEN Returns("bool", {},
                                    ResponseGet(d.r.fields, "result", NoneValue).v = "deleted",
                                    NoId)
                           ELSE IF IsNotFound(d.r)
                           THEN Returns("bool", {}, FALSE, NoId)
                           ELSE Raises(WrapOpenSearchError(
                                    DriverError("NotFoundError", d.r.msg),
                                    c_Delete_document_failed)),
                           d.store[document_id])
    /\ ds_out' # ds_out
    /\ UNCHANGED <<ds_cls, ds_exists, ds_n>>
    /\ UNCHANGED notDs

DsNext == IndexDocument \/ GetDocument \/ DeleteDocument

DsIdle ==
    /\ ds_cls = "sync"
    /\ ds_store = EmptyStore
    /\ ds_exists = FALSE
    /\ ds_written = [i \in DocIds \cup AutoIds |-> {}]
    /\ ds_n = 0
    /\ ds_out = NoDocCall

(***************************************************************************)
(* WhereClauseBuilder (core_postgres_db/utils.py) and build_where_clause   *)
(* (core_db/utils.py)                                                      *)
(***************************************************************************)
s_dunder == <<"_","_">>
k_or == <<"_","_","o","r">>
k_and == <<"_","_","a","n","d">>
k_not == <<"_","_","n","o","t">>
k_name == <<"n","a","m","e">>
k_age == <<"a","g","e">>
k_id == <<"i","d">>
k_active == <<"a","c","t","i","v","e">>
k_nope == <<"n","o","p","e">>
k_age_gt == <<"a","g","e","_","_","g","t">>
k_age_zz == <<"a","g","e","_","_","z","z">>
k_name_in == <<"n","a","m","e","_","_","i","n">>
op_eq == <<"e","q">>
op_ne == <<"n","e">>
op_gt == <<"g","t">>
op_ge == <<"g","e">>
op_lt == <<"l","t">>
op_le == <<"l","e">>
op_in == <<"i","n">>
op_not_in == <<"n","o","t","_","i","n">>
op_like == <<"l","i","k","e">>
op_ilike == <<"i","l","i","k","e">>
op_is_null == <<"i","s","_","n","u","l","l">>
op_is_not_null == <<"i","s","_","n","o","t","_","n","u","l","l">>
op_between == <<"b","e","t","w","e","e","n">>
s_users == <<"u","s","e","r","s">>

\* types.py: the values of the Operator enum
OperatorValues ==
    {op_eq, op_ne, op_gt, op_ge, op_lt, op_le, op_in, op_not_in, op_like, op_ilike,
     op_is_null, op_is_not_null, op_between}

\* Table("users", Column("id"), Column("name"), Column("age"), Column("active"))
UsersTable == [name |-> s_users, c |-> {k_id, k_name, k_age, k_active}]

\* key.rsplit("__", 1), for a key that contains "__"
LastDunder(key) ==
    CHOOSE i \in 1..(Len(key) - 1) :
        /\ SubSeq(key, i, i + 1) = s_dunder
        /\ \A j \in (i + 1)..(Len(key) - 1) : SubSeq(key, j, j + 1) # s_dunder
RSplit(key) ==
    [col_name |-> SubSeq(key, 1, LastDunder(key) - 1),
     operator |-> SubSeq(key, LastDunder(key) + 2, Len(key))]

\* SQL expressions, as SQLAlchemy builds them
BindParam(value) == [kind |-> "bindparam", value |-> value]
SqlNull == [kind |-> "null", value |-> NoneValue]
Binary(op, table, column, right) ==
    [op |-> op, table |-> table.name, column |-> column, right |-> right, of |-> <<>>]

\* a plausible slip: every junction is a conjunction
Junction_alwaysAnd(op, clauses) ==
    [op |-> "AND", table |-> <<>>, column |-> <<>>, right |-> SqlNull, of |-> clauses]

Junction(op, clauses) ==
    [op |-> op, table |-> <<>>, column |-> <<>>, right |-> SqlNull, of |-> clauses]

\* a plausible slip: every value is bound, None as well
ColumnEq_alwaysBound(table, column, value) ==
    Binary("=", table, column, BindParam(value))

\* column == value: SQLAlchemy renders a comparison with None as IS NULL
ColumnEq(table, column, value) ==
    IF value.t = "None"
    THEN Binary("IS", table, column, SqlNull)
    ELSE Binary("=", table, column, BindParam(value))

\* column != value
ColumnNe(table, column, value) ==
    IF value.t = "None"
    THEN Binary("IS NOT", table, column, SqlNull)
    ELSE Binary("!=", table, column, BindParam(value))

IsPair(value) == value.t = "tuple" /\ Len(value.v) = 2

\* OPERATOR_MAP[operator.value](column, value); core_db's if/elif chain
\* appends the same expressions
OperatorFunc(operator, table, column, value) ==
    CASE operator = op_eq -> ColumnEq(table, column, value)
      [] operator = op_ne -> ColumnNe(table, column, value)
      [] operator = op_gt -> Binary(">", table, column, BindParam(value))
      [] operator = op_ge -> Binary(">=", table, column, BindParam(value))
      [] operator = op_lt -> Binary("<", table, column, BindParam(value))
      [] operator = op_le -> Binary("<=", table, column, BindParam(value))
      [] operator = op_in ->
            IF value.t = "list" THEN Binary("IN", table, column, BindParam(value))
            ELSE ColumnEq(table, column, value)
      [] operator = op_not_in ->
            IF value.t = "list" THEN Binary("NOT IN", table, column, BindParam(value))
            ELSE ColumnNe(table, column, value)
      [] operator = op_like -> Binary("LIKE", table, column, BindParam(value))
      [] operator = op_ilike -> Binary("ILIKE", table, column, BindParam(value))
      [] operator = op_is_null -> Binary("IS", table, column, SqlNull)
      [] operator = op_is_not_null -> Binary("IS NOT", table, column, SqlNull)
      [] OTHER ->
            IF IsPair(value) THEN Binary("BETWEEN", table, column, BindParam(value))
            ELSE ColumnEq(table, column, value)

Built(clauses) == [kind |-> "returned", clauses |-> clauses, cls |-> "none"]
BuildRaises(cls) == [kind |-> "raised", clauses |-> <<>>, cls |-> cls]

\* WhereClauseBuilder._build_column_clause: the clause, or the exception
BuildColumnClause(table, key, value) ==
    LET split == IF StrIn(s_dunder, key)
                 THEN RSplit(key)
                 ELSE [col_name |-> key, operator |-> op_eq]
    IN  IF split.operator \notin OperatorValues
        THEN BuildRaises("ValueError")
        ELSE IF split.col_name \notin table.c
        THEN BuildRaises("ValidationError")
        ELSE IF split.operator = op_between /\ ~IsPair(value)
        THEN BuildRaises("ValidationError")
        ELSE Built(<<OperatorFunc(split.operator, table, split.col_name, value)>>)

\* core_db build_where_clause, one column key: what it appends
CoreDbColumnClause(table, key, value) ==
    LET split == IF StrIn(s_dunder, key)
                 THEN RSplit(key)
                 ELSE [col_name |-> key, operator |-> op_eq]
    IN  IF split.col_name \notin table.c
        THEN Built(<<>>)
        ELSE IF split.operator \notin OperatorValues
        THEN Built(<<>>)
        ELSE IF split.operator = op_between /\ ~IsPair(value)
        THEN Built(<<>>)
        ELSE Built(<<OperatorFunc(split.operator, table, split.col_name, value)>>)

RECURSIVE BuildFrom(_, _, _, _, _), ExtendAll(_, _, _, _, _)
\* the loop `for key, value in conditions.items()` from item i on
BuildFrom(pkg, table, conditions, i, clauses) ==
    IF i > Len(conditions) THEN Built(clauses)
    ELSE
      LET key == conditions[i].k
          value == conditions[i].v
          sub == IF key \in {k_or, k_and} /\ value.t = "list"
                 THEN ExtendAll(pkg, table, value.v, 1, <<>>)
                 ELSE IF key = k_not /\ value.t = "dict" /\ pkg = "core_postgres_db"
                 THEN BuildFrom(pkg, table, value.v, 1, <<>>)
                 ELSE IF pkg = "core_postgres_db"
                 THEN BuildColumnClause(table, key, value)
                 ELSE CoreDbColumnClause(table, key, value)
          added == IF sub.clauses = <<>> THEN <<>>
                   ELSE IF key = k_or /\ value.t = "list"
                   THEN <<Junction("OR", sub.clauses)>>
                   ELSE IF key = k_and /\ value.t = "list"
                   THEN <<Junction("AND", sub.clauses)>>
                   ELSE IF key = k_not /\ value.t = "dict" /\ pkg = "core_postgres_db"
                   THEN <<Junction("NOT", sub.clauses)>>
                   ELSE sub.clauses
      IN  IF sub.kind = "raised" THEN sub
          ELSE IF /\ key = k_not /\ value.t = "dict" /\ pkg = "core_postgres_db"
                  /\ Len(sub.clauses) > 1
          THEN BuildRaises("TypeError")
          ELSE BuildFrom(pkg, table, conditions, i + 1, clauses \o added)

\* for condition in value: clauses.extend(build(table, condition))
ExtendAll(pkg, table, conds, j, acc) ==
    IF j > Len(conds) THEN Built(acc)
    ELSE LET r == BuildFrom(pkg, table, conds[j], 1, <<>>)
         IN  IF r.kind = "raised" THEN r
             ELSE ExtendAll(pkg, table, conds, j + 1, acc \o r.clauses)

\* WhereClauseBuilder.build / build_where_clause
Build(pkg, table, conditions) ==
    IF conditions = <<>> THEN Built(<<>>)
    ELSE BuildFrom(pkg, table, conditions, 1, <<>>)

\* the items a conditions mapping is made of
PlainValues == {StrValue("John"), IntValue(30), NoneValue}
ConditionItems ==
    {Item(k, v) : k \in {k_name, k_age}, v \in PlainValues}
    \cup {Item(k_age_gt, IntValue(18)), Item(k_age_zz, IntValue(18)),
          Item(k_nope, StrValue("John")),
          Item(k_name_in, ListValue(<<StrValue("John"), StrValue("Jane")>>)),
          Item(k_or, ListValue(<< <<Item(k_name, StrValue("John"))>>,
                                  <<Item(k_age, NoneValue)>> >>)),
          Item(k_or, ListValue(<< <<Item(k_name, StrValue("John")),
                                    Item(k_age, IntValue(30))>>,
                                  <<Item(k_active, IntValue(1))>> >>)),
          Item(k_or, ListValue(<< <<Item(k_and, ListValue(
                                        << <<Item(k_name, StrValue("John"))>>,
                                           <<Item(k_age_gt, IntValue(18))>> >>))>>,
                                  <<Item(k_active, IntValue(1))>> >>)),
          Item(k_or, ListValue(<<>>)),
          Item(k_and, ListValue(<< <<Item(k_age_gt, IntValue(18))>>,
                                   <<Item(k_name, StrValue("John"))>> >>)),
          Item(k_and, ListValue(<< <<Item(k_nope, StrValue("John"))>> >>)),
          Item(k_not, DictValue(<<Item(k_active, IntValue(30))>>))}
ConditionsOf(n) ==
    {c \in [1..n -> ConditionItems] : \A i, j \in 1..n : c[i].k = c[j].k => i = j}
WherePackages == {"core_postgres_db", "core_db"}
NotBuilt == [kind |-> "none", clauses |-> <<>>, cls |-> "none"]

WbInit ==
    /\ wb_pkg \in WherePackages
    /\ wb_conditions \in UNION {ConditionsOf(n) : n \in 0..MaxKeys}
    /\ wb_out = NotBuilt

\* build_where_clause(table, conditions)
BuildWhereClause ==
    /\ wb_out = NotBuilt
    /\ wb_out' = Build(wb_pkg, UsersTable, wb_conditions)
    /\ UNCHANGED <<wb_pkg, wb_conditions>>
    /\ UNCHANGED notWb

WbNext == BuildWhereClause

WbIdle ==
    /\ wb_pkg = "core_postgres_db"
    /\ wb_conditions = <<>>
    /\ wb_out = NotBuilt

\* ---- rows of the users table, and what a clause selects ----
Row(id, name, age, active) ==
    (k_id :> id) @@ (k_name :> name) @@ (k_age :> age) @@ (k_active :> active)
Rows ==
    {Row(IntValue(1), n, a, IntValue(b)) :
        n \in {StrValue("John"), StrValue("Jane")},
        a \in {IntValue(30), IntValue(10), NoneValue},
        b \in {0, 1}}

\* SQL's three-valued logic
SqlNot(x) == CASE x = "T" -> "F" [] x = "F" -> "T" [] OTHER -> "U"
SqlBool(b) == IF b THEN "T" ELSE "F"
SameValue(a, b) == a.t = b.t /\ a.v = b.v

RECURSIVE Holds(_, _)
\* the truth value of a clause on a row, as the database evaluates it; the
\* comparisons are those the explored conditions produce
Holds(clause, row) ==
    CASE clause.op = "OR" ->
            IF \E i \in 1..Len(clause.of) : Holds(clause.of[i], row) = "T" THEN "T"
            ELSE IF \A i \in 1..Len(clause.of) : Holds(clause.of[i], row) = "F" THEN "F"
            ELSE "U"
      [] clause.op = "AND" ->
            IF \E i \in 1..Len(clause.of) : Holds(clause.of[i], row) = "F" THEN "F"
            ELSE IF \A i \in 1..Len(clause.of) : Holds(clause.of[i], row) = "T" THEN "T"
            ELSE "U"
      [] clause.op = "NOT" -> SqlNot(Holds(clause.of[1], row))
      [] clause.op = "IS" -> SqlBool(row[clause.column].t = "None")
      [] clause.op = "IS NOT" -> SqlBool(row[clause.column].t # "None")
      [] OTHER ->
            LET left == row[clause.column]
                right == clause.right.value
            IN  IF left.t = "None" \/ right.t = "None" THEN "U"
                ELSE CASE clause.op = "=" -> SqlBool(SameValue(left, right))
                       [] clause.op = "!=" -> SqlBool(~SameValue(left, right))
                       [] clause.op = ">" -> SqlBool(left.v > right.v)
                       [] clause.op = ">=" -> SqlBool(left.v >= right.v)
                       [] clause.op = "<" -> SqlBool(left.v < right.v)
                       [] clause.op = "<=" -> SqlBool(left.v <= right.v)
                       [] clause.op = "IN" ->
                            SqlBool(\E i \in 1..Len(right.v) : SameValue(left, right.v[i]))
                       [] clause.op = "NOT IN" ->
                            SqlBool(\A i \in 1..Len(right.v) : ~SameValue(left, right.v[i]))
                       [] OTHER -> "U"

\* the rows a statement with these WHERE clauses selects: where(*clauses)
\* joins them with AND, and no clause selects every row
Selected(rows, clauses) ==
    {row \in rows : \A i \in 1..Len(clauses) : Holds(clauses[i], row) = "T"}

\* ---- SyncPostgresDB.delete / SyncCRUD.delete ----
\* the table before the call: every row, or two of them
DeleteTables ==
    {Rows,
     {Row(IntValue(1), StrValue("John"), IntValue(30), IntValue(1)),
      Row(IntValue(1), StrValue("Jane"), NoneValue, IntValue(0))}}

\* delete(table), with .where(*where_clauses) when there are clauses
DeleteStmt(where_clauses) ==
    [issued |-> TRUE, where |-> where_clauses, has_where |-> where_clauses # <<>>]
NoStmt == [issued |-> FALSE, where |-> <<>>, has_where |-> FALSE]

\* conn.execute(stmt) inside engine.begin(): the rows the statement removes
ExecuteDelete(rows, stmt) ==
    IF stmt.has_where THEN Selected(rows, stmt.where) ELSE rows

NoDelete ==
    [kind |-> "none", cls |-> "none", stmt |-> NoStmt, before |-> {},
     deleted |-> {}, rowcount |-> 0, returned_rows |-> {}]

\* the body of delete; `driver_fails` is an SQLAlchemyError of the driver
\* that is not a deadlock, so the statement is rolled back
DeleteBody(pkg, rows, conditions, returning, driver_fails) ==
    LET built == Build(pkg, UsersTable, conditions)
        stmt == DeleteStmt(built.clauses)
        deleted == ExecuteDelete(rows, stmt)
    IN  IF built.kind = "raised"
        THEN [NoDelete EXCEPT !.kind = "raised", !.cls = built.cls, !.before = rows]
        ELSE IF driver_fails
        THEN [NoDelete EXCEPT !.kind = "raised", !.cls = "DatabaseError",
                              !.stmt = stmt, !.before = rows]
        ELSE [kind |-> "returned", cls |-> "none", stmt |-> stmt, before |-> rows,
              deleted |-> deleted, rowcount |-> Cardinality(deleted),
              returned_rows |-> IF returning THEN deleted ELSE {}]

DlInit ==
    /\ dl_pkg \in WherePackages
    /\ dl_rows \in DeleteTables
    /\ dl_conditions \in UNION {ConditionsOf(n) : n \in 0..MaxKeys}
    /\ dl_out = NoDelete

\* delete(table_name, conditions, returning)
Delete ==
    /\ dl_out = NoDelete
    /\ \E returning \in BOOLEAN, driver_fails \in BOOLEAN :
         \E r \in {DeleteBody(dl_pkg, dl_rows, dl_conditions, returning, driver_fails)} :
             /\ dl_out' = r
             /\ dl_rows' = dl_rows \ r.deleted
    /\ UNCHANGED <<dl_pkg, dl_conditions>>
    /\ UNCHANGED notDl

DlNext == Delete

DlIdle ==
    /\ dl_pkg = "core_postgres_db"
    /\ dl_rows = {}
    /\ dl_conditions = <<>>
    /\ dl_out = NoDelete

\* ---- _get_table and the table metadata cache ----
\* the columns the driver reports for the users table
DriverColumns == {"id", "name", "age", "active"}
TableNames == {"users", ""}
CacheClasses == {"base_operations", "async_operations", "core_db"}

NoTable == [kind |-> "none", id |-> 0, cls |-> "none"]
ReturnsTable(id) == [kind |-> "table", id |-> id, cls |-> "none"]
GetTableRaises(cls) == [kind |-> "raised", id |-> 0, cls |-> cls]

\* `safe_name not in self._table_cache`, and for the async class
\* `or safe_name not in self._reflected_tables`, negated
IsCached(cls, cache, reflected) ==
    cache # 0 /\ (cls = "async_operations" => reflected)

TcInit ==
    /\ tc_cls \in CacheClasses
    /\ tc_md = 0
    /\ tc_heap = <<>>
    /\ tc_cache = 0
    /\ tc_reflected = FALSE
    /\ tc_prev = [set |-> FALSE, columns |-> {}]
    /\ tc_pc = [t \in Threads |-> "idle"]
    /\ tc_tab = [t \in Threads |-> 0]
    /\ tc_mine = [t \in Threads |-> FALSE]
    /\ tc_ret = [t \in Threads |-> NoTable]
    /\ tc_left = [t \in Threads |-> MaxCalls]

\* _get_table(table_name) up to the cache test: an empty name raises, a
\* cached name returns its entry, otherwise the table is to be reflected
GetTable(t) ==
    /\ tc_pc[t] = "idle"
    /\ tc_left[t] > 0
    /\ \E table_name \in TableNames :
        IF table_name = ""
        THEN /\ tc_ret' = [tc_ret EXCEPT ![t] = GetTableRaises("ValueError")]
             /\ tc_left' = [tc_left EXCEPT ![t] = @ - 1]
             /\ UNCHANGED tc_pc
        ELSE IF IsCached(tc_cls, tc_cache, tc_reflected)
        THEN /\ tc_ret' = [tc_ret EXCEPT ![t] = ReturnsTable(tc_cache)]
             /\ tc_left' = [tc_left EXCEPT ![t] = @ - 1]
             /\ UNCHANGED tc_pc
        ELSE /\ tc_pc' = [tc_pc EXCEPT ![t] = "construct"]
             /\ UNCHANGED <<tc_ret, tc_left>>
    /\ UNCHANGED <<tc_cls, tc_md, tc_heap, tc_cache, tc_reflected, tc_prev, tc_tab, tc_mine>>
    /\ UNCHANGED notTc

\* Table(safe_name, self.metadata, ..., extend_existing=True): the table of
\* that name in the MetaData, or a new one registered in it
ConstructTable(t) ==
    /\ tc_pc[t] = "construct"
    /\ IF tc_md = 0
       THEN /\ tc_heap' = Append(tc_heap, {})
            /\ tc_md' = Len(tc_heap) + 1
            /\ tc_tab' = [tc_tab EXCEPT ![t] = Len(tc_heap) + 1]
            /\ tc_mine' = [tc_mine EXCEPT ![t] = TRUE]
       ELSE /\ tc_tab' = [tc_tab EXCEPT ![t] = tc_md]
            /\ tc_mine' = [tc_mine EXCEPT ![t] = FALSE]
            /\ UNCHANGED <<tc_heap, tc_md>>
    /\ tc_pc' = [tc_pc EXCEPT ![t] = "reflect"]
    /\ UNCHANGED <<tc_cls, tc_cache, tc_reflected, tc_prev, tc_ret, tc_left>>
    /\ UNCHANGED notTc

\* the reflection through the driver: its columns are added to the table, or
\* it fails. On failure base_operations falls back to a table without
\* autoload, core_db lets the error out, async_operations returns the table
\* as it is. A table whose construction fails is removed from the MetaData.
ReflectTable(t) ==
    /\ tc_pc[t] = "reflect"
    /\ \E ok \in BOOLEAN :
        IF ok
        THEN /\ tc_heap' = [tc_heap EXCEPT ![tc_tab[t]] = @ \cup DriverColumns]
             /\ tc_pc' = [tc_pc EXCEPT ![t] = "store"]
             /\ UNCHANGED <<tc_md, tc_tab, tc_ret, tc_left>>
        ELSE IF tc_cls = "async_operations"
        THEN /\ tc_pc' = [tc_pc EXCEPT ![t] = "store"]
             /\ UNCHANGED <<tc_heap, tc_md, tc_tab, tc_ret, tc_left>>
        ELSE LET md == IF tc_mine[t] /\ tc_md = tc_tab[t] THEN 0 ELSE tc_md
             IN  IF tc_cls = "core_db"
                 THEN /\ tc_md' = md
                      /\ tc_ret' = [tc_ret EXCEPT ![t] = GetTableRaises("SQLAlchemyError")]
                      /\ tc_left' = [tc_left EXCEPT ![t] = @ - 1]
                      /\ tc_pc' = [tc_pc EXCEPT ![t] = "idle"]
                      /\ UNCHANGED <<tc_heap, tc_tab>>
                 ELSE /\ IF md = 0
                         THEN /\ tc_heap' = Append(tc_heap, {})
                              /\ tc_md' = Len(tc_heap) + 1
                              /\ tc_tab' = [tc_tab EXCEPT ![t] = Len(tc_heap) + 1]
                         ELSE /\ tc_tab' = [tc_tab EXCEPT ![t] = md]
                              /\ tc_md' = md
                              /\ UNCHANGED tc_heap
                      /\ tc_pc' = [tc_pc EXCEPT ![t] = "store"]
                      /\ UNCHANGED <<tc_ret, tc_left>>
    /\ UNCHANGED <<tc_cls, tc_cache, tc_reflected, tc_prev, tc_mine>>
    /\ UNCHANGED notTc

\* self._table_cache[safe_name] = table; the async method goes on to return
\* without giving up control
StoreTable(t) ==
    /\ tc_pc[t] = "store"
    /\ tc_cache' = tc_tab[t]
    /\ tc_prev' = IF tc_cache # 0
                  THEN [set |-> TRUE, columns |-> tc_heap[tc_cache]] ELSE tc_prev
    /\ IF tc_cls = "async_operations"
       THEN /\ tc_reflected' = TRUE
            /\ tc_ret' = [tc_ret EXCEPT ![t] = ReturnsTable(tc_tab[t])]
            /\ tc_left' = [tc_left EXCEPT ![t] = @ - 1]
            /\ tc_pc' = [tc_pc EXCEPT ![t] = "idle"]
       ELSE /\ tc_pc' = [tc_pc EXCEPT ![t] = "return"]
            /\ UNCHANGED <<tc_reflected, tc_ret, tc_left>>
    /\ UNCHANGED <<tc_cls, tc_md, tc_heap, tc_tab, tc_mine>>
    /\ UNCHANGED notTc

\* return self._table_cache[safe_name]
ReturnTable(t) ==
    /\ tc_pc[t] = "return"
    /\ tc_ret' = [tc_ret EXCEPT ![t] = ReturnsTable(tc_cache)]
    /\ tc_left' = [tc_left EXCEPT ![t] = @ - 1]
    /\ tc_pc' = [tc_pc EXCEPT ![t] = "idle"]
    /\ UNCHANGED <<tc_cls, tc_md, tc_heap, tc_cache, tc_reflected, tc_prev, tc_tab, tc_mine>>
    /\ UNCHANGED notTc

TcNext ==
    \E t \in Threads :
        \/ GetTable(t)
        \/ ConstructTable(t)
        \/ ReflectTable(t)
        \/ StoreTable(t)
        \/ ReturnTable(t)

TcIdle ==
    /\ tc_cls = "base_operations"
    /\ tc_md = 0
    /\ tc_heap = <<>>
    /\ tc_cache = 0
    /\ tc_reflected = FALSE
    /\ tc_prev = [set |-> FALSE, columns |-> {}]
    /\ tc_pc = [t \in Threads |-> "idle"]
    /\ tc_tab = [t \in Threads |-> 0]
    /\ tc_mine = [t \in Threads |-> FALSE]
    /\ tc_ret = [t \in Threads |-> NoTable]
    /\ tc_left = [t \in Threads |-> 0]

\* ---- ConnectionManager.get_sync_engine / get_async_engine ----
NoEngine == [kind |-> "none", key |-> "none", serial |-> 0, cls |-> "none"]
Engine(key, serial) == [kind |-> "engine", key |-> key, serial |-> serial, cls |-> "none"]
EngineRaises(cls) == [kind |-> "raised", key |-> "none", serial |-> 0, cls |-> cls]

CmInit ==
    /\ cm_kind \in {"sync", "async"}
    /\ cm_engines = [k \in Keys |-> NoEngine]
    /\ cm_created = [k \in Keys |-> 0]
    /\ cm_given = [k \in Keys |-> {}]
    /\ cm_overlap = FALSE
    /\ cm_key \in [Threads -> Keys]
    /\ cm_pc = [t \in Threads |-> "idle"]
    /\ cm_tmp = [t \in Threads |-> NoEngine]
    /\ cm_ret = [t \in Threads |-> NoEngine]
    /\ cm_left = [t \in Threads |-> MaxCalls]

\* get_sync_engine() up to the test `self._config_key not in
\* self._sync_engines`: a known key returns its engine
GetEngine(t) ==
    /\ cm_pc[t] = "idle"
    /\ cm_left[t] > 0
    /\ cm_overlap' = (cm_overlap \/ \E u \in Threads \ {t} : cm_pc[u] # "idle")
    /\ IF cm_engines[cm_key[t]] # NoEngine
       THEN /\ cm_ret' = [cm_ret EXCEPT ![t] = cm_engines[cm_key[t]]]
            /\ cm_given' = [cm_given EXCEPT ![cm_key[t]] = @ \cup {cm_engines[cm_key[t]]}]
            /\ cm_left' = [cm_left EXCEPT ![t] = @ - 1]
            /\ UNCHANGED cm_pc
       ELSE /\ cm_pc' = [cm_pc EXCEPT ![t] = "create"]
            /\ UNCHANGED <<cm_ret, cm_given, cm_left>>
    /\ UNCHANGED <<cm_kind, cm_engines, cm_created, cm_key, cm_tmp>>
    /\ UNCHANGED notCm

\* create_engine(...) / create_async_engine(...): a new engine, or an
\* exception that is re-raised as ConnectionError
CreateEngine(t) ==
    /\ cm_pc[t] = "create"
    /\ \E ok \in BOOLEAN :
        IF ok
        THEN /\ cm_created' = [cm_created EXCEPT ![cm_key[t]] = @ + 1]
             /\ cm_tmp' = [cm_tmp EXCEPT ![t] = Engine(cm_key[t], cm_created[cm_key[t]] + 1)]
             /\ cm_pc' = [cm_pc EXCEPT ![t] = "store"]
             /\ UNCHANGED <<cm_ret, cm_left>>
        ELSE /\ cm_ret' = [cm_ret EXCEPT ![t] = EngineRaises("ConnectionError")]
             /\ cm_left' = [cm_left EXCEPT ![t] = @ - 1]
             /\ cm_pc' = [cm_pc EXCEPT ![t] = "idle"]
             /\ UNCHANGED <<cm_created, cm_tmp>>
    /\ UNCHANGED <<cm_kind, cm_engines, cm_given, cm_overlap, cm_key>>
    /\ UNCHANGED notCm

\* self._sync_engines[self._config_key] = <the new engine>
StoreEngine(t) ==
    /\ cm_pc[t] = "store"
    /\ cm_engines' = [cm_engines EXCEPT ![cm_key[t]] = cm_tmp[t]]
    /\ cm_pc' = [cm_pc EXCEPT ![t] = "return"]
    /\ UNCHANGED <<cm_kind, cm_created, cm_given, cm_overlap, cm_key, cm_tmp, cm_ret, cm_left>>
    /\ UNCHANGED notCm

\* return self._sync_engines[self._config_key]
ReturnEngine(t) ==
    /\ cm_pc[t] = "return"
    /\ cm_ret' = [cm_ret EXCEPT ![t] = cm_engines[cm_key[t]]]
    /\ cm_given' = [cm_given EXCEPT ![cm_key[t]] = @ \cup {cm_engines[cm_key[t]]}]
    /\ cm_left' = [cm_left EXCEPT ![t] = @ - 1]
    /\ cm_pc' = [cm_pc EXCEPT ![t] = "idle"]
    /\ UNCHANGED <<cm_kind, cm_engines, cm_created, cm_overlap, cm_key, cm_tmp>>
    /\ UNCHANGED notCm

CmNext ==
    \E t \in Threads :
        \/ GetEngine(t)
        \/ CreateEngine(t)
        \/ StoreEngine(t)
        \/ ReturnEngine(t)

CmIdle ==
    /\ cm_kind = "sync"
    /\ cm_engines = [k \in Keys |-> NoEngine]
    /\ cm_created = [k \in Keys |-> 0]
    /\ cm_given = [k \in Keys |-> {}]
    /\ cm_overlap = FALSE
    /\ cm_key = [t \in Threads |-> "k1"]
    /\ cm_pc = [t \in Threads |-> "idle"]
    /\ cm_tmp = [t \in Threads |-> NoEngine]
    /\ cm_ret = [t \in Threads |-> NoEngine]
    /\ cm_left = [t \in Threads |-> 0]

(***************************************************************************)
(* Specifications                                                          *)
(***************************************************************************)
CoreIdle ==
    ChunkIdle /\ RetryIdle /\ TxIdle /\ BpIdle /\ OsIdle /\ PmIdle /\ ThIdle
PgIdle == DlIdle /\ TcIdle /\ CmIdle
ApiIdle == CrIdle /\ WrIdle /\ DsIdle /\ WbIdle /\ PgIdle

InitChunk == ChunkInit /\ RetryIdle /\ TxIdle /\ BpIdle /\ OsIdle /\ PmIdle /\ ThIdle /\ ApiIdle
SpecChunk == InitChunk /\ [][ChunkNext]_vars

InitRetry == RetryInit /\ ChunkIdle /\ TxIdle /\ BpIdle /\ OsIdle /\ PmIdle /\ ThIdle /\ ApiIdle
SpecRetry == InitRetry /\ [][RetryNext]_vars

InitTx == TxInit /\ ChunkIdle /\ RetryIdle /\ BpIdle /\ OsIdle /\ PmIdle /\ ThIdle /\ ApiIdle
SpecTx == InitTx /\ [][TxNext]_vars

InitBulk == BpInit /\ ChunkIdle /\ RetryIdle /\ TxIdle /\ OsIdle /\ PmIdle /\ ThIdle /\ ApiIdle
SpecBulk == InitBulk /\ [][BpNext]_vars

\* several calls on one processor, with reset_stats between them
StatsConfigs ==
    [op : {"index", "update", "delete"}, max_retries : {0, 2}, batch_size : {1},
     refresh_after_batch : {FALSE}, shape : {"flat"}]
InitBulkStats == InitBulk /\ bp_cfg \in StatsConfigs
BulkStatsNext == BpNext \/ BulkCallCompleted \/ BulkResetStats
SpecBulkStats == InitBulkStats /\ [][BulkStatsNext]_vars

InitOs == OsInit /\ ChunkIdle /\ RetryIdle /\ TxIdle /\ BpIdle /\ PmIdle /\ ThIdle /\ ApiIdle
SpecOs == InitOs /\ [][OsNext]_vars

InitPerf == PmInit /\ ThIdle /\ ChunkIdle /\ RetryIdle /\ TxIdle /\ BpIdle /\ OsIdle /\ ApiIdle
SpecPerf == InitPerf /\ [][PmNext]_vars

InitThreads ==
    /\ PmInit /\ pm_cls \in {"core_postgres_db", "core_db"}
    /\ ThInit /\ ChunkIdle /\ RetryIdle /\ TxIdle /\ BpIdle /\ OsIdle /\ ApiIdle
SpecThreads == InitThreads /\ [][ThNext]_vars

InitCreate == CrInit /\ CoreIdle /\ WrIdle /\ DsIdle /\ WbIdle /\ PgIdle
SpecCreate == InitCreate /\ [][CrNext]_vars

InitWrap == WrInit /\ CoreIdle /\ CrIdle /\ DsIdle /\ WbIdle /\ PgIdle

InitDocs == DsInit /\ CoreIdle /\ CrIdle /\ WrIdle /\ WbIdle /\ PgIdle
SpecDocs == InitDocs /\ [][DsNext]_vars

InitWhere == WbInit /\ CoreIdle /\ CrIdle /\ WrIdle /\ DsIdle /\ PgIdle
SpecWhere == InitWhere /\ [][WbNext]_vars

SpecWrap == InitWrap /\ [][WrNext]_vars

ClientsIdle == CoreIdle /\ CrIdle /\ WrIdle /\ DsIdle /\ WbIdle

InitDelete == DlInit /\ ClientsIdle /\ TcIdle /\ CmIdle
SpecDelete == InitDelete /\ [][DlNext]_vars

InitCache == TcInit /\ ClientsIdle /\ DlIdle /\ CmIdle
SpecCache == InitCache /\ [][TcNext]_vars

InitConn == CmInit /\ ClientsIdle /\ DlIdle /\ TcIdle
SpecConn == InitConn /\ [][CmNext]_vars

\* either bulk path of core_opensearch: the processor or a client's bulk_index
InitBulkOps ==
    /\ ChunkIdle /\ RetryIdle /\ TxIdle /\ PmIdle /\ ThIdle /\ ApiIdle
    /\ \/ BpInit /\ OsIdle
       \/ OsInit /\ BpIdle
BulkOpsNext == BpNext \/ OsNext
SpecBulkOps == InitBulkOps /\ [][BulkOpsNext]_vars

(***************************************************************************)
(* Claims                                                                  *)
(***************************************************************************)
RECURSIVE Concat(_)
Concat(ss) == IF ss = <<>> THEN <<>> ELSE Head(ss) \o Concat(Tail(ss))

CeilDiv(n, b) == (n + b - 1) \div b

\* C10: for every list of N records and every batch size B >= 1, chunking
\* returns exactly ceil(N/B) batches, each of size at most B, whose in-order
\* concatenation equals the original list.
C10_ChunkingPartition ==
    (ck_pc # "call" /\ ck_size >= 1) =>
        /\ ck_pc = "returned"
        /\ Len(ck_out) = CeilDiv(Len(ck_data), ck_size)
        /\ \A k \in 1..Len(ck_out) : Len(ck_out[k]) <= ck_size
        /\ Concat(ck_out) = ck_data

\* a list that does not divide evenly: several batches, the last one short
C10_Witness ==
    /\ ck_pc = "returned"
    /\ Len(ck_out) >= 2
    /\ Len(ck_out[Len(ck_out)]) < ck_size
    /\ Len(ck_out[Len(ck_out)]) >= 1

\* C1: if the body of a transaction() scope performs writes through the
\* client (create / update / delete called inside the scope) and then raises,
\* then after the scope exits none of those writes is visible: a read returns
\* exactly the pre-transaction state.
C1_RollbackHidesClientWrites ==
    (tx_pc = "done" /\ tx_opened /\ tx_writes > 0 /\ tx_body.kind = "error")
        => db = tx_pre

\* C6: every transaction scope opened with TransactionManager.begin (sync or
\* async) ends with exactly one of commit or rollback on its connection:
\* commit if and only if the body exits without an exception, rollback if and
\* only if the body raises; while the body runs neither has happened.
C6_CommitXorRollback ==
    /\ tx_pc = "body" => conn.log = <<>>
    /\ (tx_pc = "done" /\ tx_opened) =>
        /\ Len(conn.log) = 1
        /\ ~conn.active
        /\ conn.log[1].op = "commit" <=> tx_body.kind = "none"
        /\ conn.log[1].op = "rollback" <=> tx_body.kind = "error"

\* a body that wrote on the connection and raised: one rollback, by begin()
C6_Witness ==
    /\ tx_pc = "done" /\ tx_opened
    /\ tx_body.kind = "error"
    /\ conn.log = <<[op |-> "rollback", by |-> "TransactionManager.begin"]>>

\* C7 as stated: any exception raised inside a transaction() / atransaction()
\* scope reaches the caller as a TransactionError carrying the original
\* cause, never as the original exception.
C7_AnyExceptionWrapped ==
    (tx_pc = "done" /\ tx_opened /\ tx_body.kind = "error") =>
        /\ tx_seen.cls = "TransactionError"
        /\ "context" \in DOMAIN tx_seen
        /\ tx_seen.context = tx_body

\* C7 as amended: any exception derived from Exception raised inside the
\* scope reaches the caller as a TransactionError whose message embeds the
\* original message and whose __context__ is the original exception; an
\* exception outside the Exception hierarchy passes through unchanged.
C7_ExceptionWrapped ==
    (tx_pc = "done" /\ tx_opened /\ tx_body.kind = "error") =>
        IF tx_body.is_exception
        THEN /\ tx_seen.cls = "TransactionError"
             /\ "context" \in DOMAIN tx_seen
             /\ tx_seen.context = tx_body
             /\ StrIn(tx_body.msg, tx_seen.msg)
             /\ tx_seen # tx_body
        ELSE tx_seen = tx_body

\* the body raised a TransactionError of its own: the caller still gets a new
\* TransactionError wrapped around it
C7_Witness ==
    /\ tx_pc = "done" /\ tx_opened
    /\ tx_body.kind = "error" /\ tx_body.cls = "TransactionError"
    /\ tx_seen.cls = "TransactionError"
    /\ "context" \in DOMAIN tx_seen
    /\ tx_seen.context = tx_body

\* C2: for a batch on which every driver submission reports only per-record
\* errors matching the retryable keywords, the batch is resubmitted until
\* max_retries attempts have been made, after which the still-failing records
\* are reported in the returned result (failed count and error list) and no
\* exception is raised.
C2_RetryableRetriedUntilMax ==
    (bp_pc = "batch_return" /\ bp_submits >= 1 /\ bp_only_retryable) =>
        /\ bp_submits = bp_cfg.max_retries
        /\ bp_batch_result.failed = Len(bp_resp.errors)
        /\ bp_batch_result.errors = bp_resp.errors

\* C3: when the driver fails a batch with a non-retryable error, the batch is
\* not resubmitted (the driver is called exactly once for it) and every
\* record of that batch is counted as failed in the result.
C3_NonRetryableNotRetried ==
    (bp_pc = "batch_return" /\ bp_nonretryable_raise) =>
        /\ bp_submits = 1
        /\ bp_batch_result.failed = Len(bp_batches[bp_i].actions)

\* C4: for every operation type, when the driver reports retryable failures
\* for a subset F of a batch's records and attempts remain, the next
\* submission for that batch contains exactly the actions of F.
C4_RetryNarrowsToFailed ==
    bp_want.set => (bp_pc = "retry_loop" /\ bp_batch.actions = bp_want.actions)

\* C8: in a bulk operation (SyncOpenSearchDB.bulk_index, BulkProcessor), when
\* the driver call that ends a batch throws instead of returning per-record
\* results, all records of the submitted batch are counted as failed in the
\* batch's result, the thrown error is recorded in it, the overall result
\* returned by the operation carries those failures, and the operation raises
\* only before the driver has been called at all.
C8_DriverThrowMarksBatchFailed ==
    /\ (bp_pc = "batch_return" /\ bp_resp.kind = "raise") =>
          /\ bp_batch_result.failed = Len(bp_sub)
          /\ bp_batch_result.has_errors
          /\ bp_batch_result.errors # <<>>
          /\ bp_batch_result.errors[Len(bp_batch_result.errors)]
               = [batch_error |-> bp_resp.err.msg]
    /\ (bp_pc = "returned" /\ bp_resp.kind = "raise") =>
          /\ bp_result.has_errors
          /\ bp_result.failed >= Len(bp_sub)
    /\ bp_pc = "raised" => bp_submits = 0
    /\ (os_cls = "sync" /\ os_pc = "batch_return" /\ os_resp.kind = "raise") =>
          /\ os_batch_result.failed = Len(os_batches[os_i])
          /\ os_batch_result.has_errors
          /\ os_batch_result.errors = <<[batch_error |-> os_resp.err.msg]>>
    /\ (os_cls = "sync" /\ os_pc = "returned" /\ os_resp.kind = "raise") =>
          /\ os_result.has_errors
          /\ os_result.failed >= Len(os_batches[os_i])
    /\ os_pc = "raised" => os_calls = 0

\* the processor's last attempt on a two-record batch threw after an earlier
\* attempt had thrown too, and the batch's result is about to be returned
C8_Witness ==
    /\ bp_pc = "batch_return"
    /\ bp_resp.kind = "raise"
    /\ bp_submits >= 2
    /\ Len(bp_sub) = 2
    /\ bp_batch_result.failed = 2

\* C9: AsyncOpenSearchDB.bulk_index retries a batch whose driver bulk call
\* fails with a retryable error: when such a batch is marked failed, the call
\* has been attempted 3 times in total.
C9_AsyncRetriesThreeTimes ==
    (/\ os_cls = "async"
     /\ os_pc = "batch_return"
     /\ os_resp.kind = "raise"
     /\ ShouldRetry(os_resp.err)) => os_calls = max_attempts

\* the execution times of the recordings in h, or of those of one operation type
TimesOf(h) == [i \in 1..Len(h) |-> h[i].t]
OpTimes(h, op) == LET Is(e) == e.op = op IN TimesOf(SelectSeq(h, Is))

\* the sum of a sequence whose members come from the finite set S
RECURSIVE SumOver(_, _)
SumOver(S, q) ==
    IF S = {} THEN 0
    ELSE LET v == CHOOSE x \in S : TRUE
         IN  v * Cardinality({i \in 1..Len(q) : q[i] = v}) + SumOver(S \ {v}, q)

Smallest(q) == CHOOSE x \in {q[i] : i \in 1..Len(q)} : \A i \in 1..Len(q) : x <= q[i]
Largest(q) == CHOOSE x \in {q[i] : i \in 1..Len(q)} : \A i \in 1..Len(q) : x >= q[i]

\* the last n members of q
LastN(q, n) == IF Len(q) > n THEN SubSeq(q, Len(q) - n + 1, Len(q)) ELSE q

RecordedKeys == {k \in PKeys : pm_hist[k] # <<>>}

\* C11: for any sequence of record_read / record_write calls on QueryStats,
\* snapshot() succeeds and reports, for each recorded key (a key recorded
\* once included), count = number of calls, total_time = their sum,
\* avg_time = total_time / count, min_time and max_time = the smallest and
\* largest time, and total_rows = the sum of the row counts.
C11_SnapshotReportsAggregates ==
    (pm_cls \in {"core_postgres_db", "core_db"} /\ pm_snap.kind # "none") =>
        /\ pm_snap.kind = "returned"
        /\ DOMAIN pm_snap.value = RecordedKeys
        /\ \A k \in RecordedKeys :
            LET h == pm_hist[k]
                e == pm_snap.value[k]
            IN  /\ e.count = Len(h)
                /\ e.total_time = SumOver(ExecTimes, TimesOf(h))
                /\ e.avg_time = [num |-> e.total_time, den |-> e.count]
                /\ e.min_time = Smallest(TimesOf(h))
                /\ e.max_time = Largest(TimesOf(h))
                /\ e.total_rows = SumOver(RowCounts, [i \in 1..Len(h) |-> h[i].rows])

\* C13: after any sequence of recordings, each key's rolling window of
\* execution times holds at most 1000 samples, which are exactly the most
\* recently recorded samples of that key in recording order, while the
\* key's running count counts every recording (QueryStats of
\* core_postgres_db; the search, index and bulk windows of OpenSearchStats).
C13_WindowHoldsMostRecent ==
    \A k \in Present(pm_stats) :
        LET h == pm_hist[k]
            m == pm_stats[k]
        IN  CASE pm_cls = "core_postgres_db" ->
                    /\ Len(m.execution_times) <= RecentWindow
                    /\ m.execution_times = LastN(TimesOf(h), RecentWindow)
                    /\ m.count = Len(h)
              [] pm_cls = "opensearch" ->
                    /\ Len(m.search_times) <= RecentWindow
                    /\ m.search_times = LastN(OpTimes(h, "search"), RecentWindow)
                    /\ m.search_count = Len(OpTimes(h, "search"))
                    /\ Len(m.index_times) <= RecentWindow
                    /\ m.index_times = LastN(OpTimes(h, "index"), RecentWindow)
                    /\ m.index_count = Len(OpTimes(h, "index"))
                    /\ Len(m.bulk_times) <= RecentWindow
                    /\ m.bulk_times = LastN(OpTimes(h, "bulk"), RecentWindow)
                    /\ m.bulk_count = Len(OpTimes(h, "bulk"))
              [] OTHER -> m.count = Len(h)

\* a key of QueryStats has been recorded 1001 times, the last time with a
\* sample that differs from the earlier ones
C13_Witness ==
    /\ pm_cls = "core_postgres_db"
    /\ pm_stats["k1"] # Absent
    /\ pm_stats["k1"].count = RecentWindow + 1
    /\ Len(pm_stats["k1"].execution_times) = RecentWindow
    /\ pm_stats["k1"].execution_times[RecentWindow] = 2
    /\ pm_stats["k1"].execution_times[1] = 1

\* C14: cleanup of the performance counters evicts an entry only if its last
\* recorded activity of any operation type is older than the retention
\* window.
C14_EvictsOnlyStale ==
    \A e \in pm_evicted : e.now - e.last > retention_hours

\* C15: after reset(), snapshot() is empty whatever was recorded before, and
\* recordings made after the reset start from zero: every entry holds
\* exactly what was recorded since the reset.
C15_ResetStartsFromZero ==
    pm_resets > 0 =>
        /\ Present(pm_stats) = RecordedKeys
        /\ (RecordedKeys = {} /\ pm_snap.kind # "none") =>
              (pm_snap.kind = "returned" /\ pm_snap.value = <<>>)
        /\ pm_snap.kind = "returned" => DOMAIN pm_snap.value = RecordedKeys
        /\ \A k \in RecordedKeys :
            LET h == pm_hist[k]
                m == pm_stats[k]
            IN  IF pm_cls = "opensearch"
                THEN /\ m.search_count = Len(OpTimes(h, "search"))
                     /\ m.search_times = LastN(OpTimes(h, "search"), RecentWindow)
                     /\ m.index_count + m.bulk_count + m.update_count + m.delete_count
                          = Len(h) - m.search_count
                     /\ m.search_time + m.index_time + m.bulk_time + m.update_time
                          + m.delete_time = SumOver(ExecTimes, TimesOf(h))
                ELSE /\ m.count = Len(h)
                     /\ m.total_time = SumOver(ExecTimes, TimesOf(h))
                     /\ m.total_rows = SumOver(RowCounts, [i \in 1..Len(h) |-> h[i].rows])
                     /\ m.min_time = Smallest(TimesOf(h))
                     /\ m.max_time = Largest(TimesOf(h))

\* the recording loop ran, reset() was called, one more recording was made
\* and snapshot() returned it with a count of one
C15_Witness ==
    /\ pm_loop.op # "none"
    /\ pm_resets = 1
    /\ pm_snap.kind = "returned"
    /\ DOMAIN pm_snap.value = {"k1"}
    /\ pm_cls = "core_db"
    /\ pm_snap.value["k1"].count = 1
    /\ Len(pm_hist["k1"]) = 1

\* what snapshot() would report as the count of key k
CountOf(k) == IF k \in Present(pm_stats) THEN Snapshot(pm_cls, pm_stats)[k].count ELSE 0

C16_UniqueViolationRaisesDuplicateEntry ==
    (/\ cr_out.driver.kind = "IntegrityError"
     /\ StrIn(s_duplicate_key, cr_out.driver.msg))
        => (/\ cr_out.kind = "raised"
            /\ cr_out.cls = "DuplicateEntryError"
            /\ cr_rows[cr_out.table_name] = {cr_out.data.email})

\* the email is in the table already, the server words the violation with
\* both 'duplicate key' and 'violates', and DuplicateEntryError comes out
C16_Witness ==
    /\ cr_out.present
    /\ cr_out.driver.kind = "IntegrityError"
    /\ StrIn(s_duplicate_key, cr_out.driver.msg)
    /\ StrIn(CONSTRAINT_VIOLATION_ERROR, cr_out.driver.msg)
    /\ cr_out.kind = "raised"
    /\ cr_out.cls = "DuplicateEntryError"

\* C19: for every exception raised by the driver, wrap_opensearch_error
\* returns an instance of an OpenSearchError subclass and never itself
\* raises, whichever of its message patterns the message matches.
C19_WrapAlwaysReturnsOpenSearchError ==
    wr_out # NotWrapped
        => (wr_out.kind = "returned" /\ wr_out.cls \in OpenSearchErrorClasses)

\* C17: in lookup operations a driver not-found error is a normal return:
\* get_document returns None and delete_document returns False whenever the
\* driver raises an error whose message contains 'not_found', and no
\* exception reaches the caller.
C17_NotFoundIsNormalReturn ==
    (/\ ds_out.op \in {"get_document", "delete_document"}
     /\ ds_out.driver.kind = "error"
     /\ StrIn(s_not_found, ds_out.driver.msg))
        => /\ ds_out.kind = "returned"
           /\ ds_out.op = "get_document" => ds_out.vkind = "None"
           /\ ds_out.op = "delete_document"
                => (ds_out.vkind = "bool" /\ ds_out.flag = FALSE)

\* a delete of a document that is not there: the driver raises with
\* "result":"not_found" in its message and False comes back
C17_Witness ==
    /\ ds_out.op = "delete_document"
    /\ ds_exists
    /\ ds_out.index_name = s_products
    /\ ds_out.driver = DriverRaises(e_result_not_found)
    /\ ds_out.kind = "returned"
    /\ ds_out.flag = FALSE

\* the items get_document adds to the stored source
Metadata(index_name, id, version) ==
    {Item("_id", StrValue(id)), Item("_index", StrValue(index_name)),
     Item("_version", IntValue(version))}

\* C18 (as stated): writing d with index_document and reading it back with
\* get_document by the returned identifier yields a document equal to the
\* normalized form of d, with no field added and none lost.
C18_RoundTripEqualsNormalized ==
    (ds_out.op = "get_document" /\ ds_out.vkind = "doc")
        => ds_out.doc = NormalizeDocument(ds_written[ds_out.document_id])

\* C18 (amended): the document read back is the normalized form of d (its
\* None-valued fields stripped, its values normalized) together with the
\* three items _id, _index and _version that get_document sets; no other
\* field is added and none is lost.
C18_RoundTripUpToMetadata ==
    (ds_out.op = "get_document" /\ ds_out.vkind = "doc")
        => /\ ds_out.doc =
                NormalizeDocument(ds_written[ds_out.document_id])
                \cup Metadata(ds_out.index_name, ds_out.document_id, ds_out.stored.version)
           /\ {f.k : f \in ds_out.doc} =
                {f.k : f \in {g \in ds_written[ds_out.document_id] : g.v.t # "None"}}
                \cup MetaFields
           /\ ds_out.stored.version >= 1

\* a document with a None-valued field was indexed without an id and is read
\* back by the id the server made up
C18_Witness ==
    /\ ds_out.op = "get_document"
    /\ ds_out.vkind = "doc"
    /\ ds_out.document_id \in AutoIds
    /\ \E f \in ds_written[ds_out.document_id] : f.v.t = "None"
    /\ \E f \in ds_out.doc : f.k \notin MetaFields

\* a conditions mapping that uses only plain column keys on existing columns
PlainKeysOnly(conditions) ==
    \A i \in 1..Len(conditions) :
        ~StrIn(s_dunder, conditions[i].k) /\ conditions[i].k \in UsersTable.c

IsGrouping(item) == item.k \in {k_or, k_and} /\ item.v.t = "list"
GroupOperator(item) == IF item.k = k_or THEN "OR" ELSE "AND"

\* the clauses of all listed condition mappings, in order
GroupClauses(pkg, conds) ==
    Concat([j \in 1..Len(conds) |-> Build(pkg, UsersTable, conds[j]).clauses])

\* what the items before the last one contribute
ClausesBeforeLast ==
    Build(wb_pkg, UsersTable, SubSeq(wb_conditions, 1, Len(wb_conditions) - 1)).clauses

\* the builder returned and the last item of the mapping is a grouping
LastIsGrouping ==
    /\ wb_out.kind = "returned"
    /\ wb_conditions # <<>>
    /\ IsGrouping(wb_conditions[Len(wb_conditions)])

KeyParts(key) ==
    IF StrIn(s_dunder, key) THEN RSplit(key) ELSE [col_name |-> key, operator |-> op_eq]

\* a condition on a column with a supported operator: no reserved key
IsColumnCondition(item) ==
    /\ item.k \notin {k_or, k_and, k_not}
    /\ KeyParts(item.k).operator \in OperatorValues

\* the conditions whose column exists in the table
OnExistingColumn(conditions) ==
    {i \in 1..Len(conditions) : KeyParts(conditions[i].k).col_name \in UsersTable.c}

\* C22: build_where_clause ignores a condition whose column does not exist
\* in the table: it raises no error and returns exactly one clause for each
\* of the remaining conditions.
C22_MissingColumnIsIgnored ==
    (/\ wb_out # NotBuilt
     /\ \A i \in 1..Len(wb_conditions) : IsColumnCondition(wb_conditions[i])
     /\ OnExistingColumn(wb_conditions) # 1..Len(wb_conditions))
        => /\ wb_out.kind = "returned"
           /\ Len(wb_out.clauses) = Cardinality(OnExistingColumn(wb_conditions))

\* a mapping of column conditions on existing columns
IsColumnMapping(cond) ==
    \A k \in 1..Len(cond) :
        /\ IsColumnCondition(cond[k])
        /\ KeyParts(cond[k].k).col_name \in UsersTable.c

\* the row satisfies every condition of the mapping
SatisfiesAll(row, cond) ==
    \A k \in 1..Len(cond) :
        Holds(Build(wb_pkg, UsersTable, <<cond[k]>>).clauses[1], row) = "T"

\* the builder returned and the last item is {'__or': [c1, ..., cn]} with
\* every ci a mapping of column conditions
LastIsOrOfMappings ==
    /\ LastIsGrouping
    /\ wb_conditions[Len(wb_conditions)].k = k_or
    /\ wb_conditions[Len(wb_conditions)].v.v # <<>>
    /\ \A j \in 1..Len(wb_conditions[Len(wb_conditions)].v.v) :
            IsColumnMapping(wb_conditions[Len(wb_conditions)].v.v[j])

\* C27: for conditions {'__or': [c1, ..., cn]} where each ci is a mapping of
\* column conditions, a row satisfies the built clause if and only if it
\* satisfies all conditions of at least one ci.
C27_OrOfConjunctions ==
    LastIsOrOfMappings =>
        LET cs == wb_conditions[Len(wb_conditions)].v.v
            clause == wb_out.clauses[Len(wb_out.clauses)]
        IN  \A row \in Rows :
                (Holds(clause, row) = "T")
                    <=> (\E j \in 1..Len(cs) : SatisfiesAll(row, cs[j]))

\* the same, when every ci has a single key
C27_OrOfSingleConditions ==
    (/\ LastIsOrOfMappings
     /\ \A j \in 1..Len(wb_conditions[Len(wb_conditions)].v.v) :
            Len(wb_conditions[Len(wb_conditions)].v.v[j]) = 1)
        => C27_OrOfConjunctions

\* C26: delete(table, conditions) called with a non-empty conditions mapping
\* never issues a DELETE without a WHERE clause: when no clause can be built
\* from the conditions, no row is deleted.
C26_NonEmptyConditionsNeverDeleteAll ==
    (dl_out # NoDelete /\ dl_conditions # <<>>)
        => /\ dl_out.stmt.issued => dl_out.stmt.has_where
           /\ dl_out.stmt.where = <<>> => dl_rows = dl_out.before

\* when clauses are built, only rows that satisfy every one of them go
C26_DeletesOnlySelectedRows ==
    (dl_out.kind = "returned" /\ dl_out.stmt.has_where)
        => /\ dl_out.deleted = Selected(dl_out.before, dl_out.stmt.where)
           /\ dl_rows = dl_out.before \ dl_out.deleted

\* C23: retry counters never exceed the configured maximum: at every point
\* during bulk processing a batch's retry_count is at most max_retries, and
\* no batch is submitted to the driver more than max_retries times.
C23_RetryCountersBounded ==
    bp_pc # "idle" =>
        /\ bp_batch.retry_count <= bp_cfg.max_retries
        /\ \A k \in 1..Len(bp_batches) : bp_batches[k].retry_count <= bp_cfg.max_retries
        /\ bp_submits <= bp_cfg.max_retries

\* a batch was submitted max_retries = 3 times, narrowed for retry twice
C23_Witness ==
    /\ bp_cfg.max_retries = BULK_RETRY_ATTEMPTS
    /\ bp_pc = "batch_return"
    /\ bp_submits = bp_cfg.max_retries
    /\ bp_batch.retry_count = 2

\* the batches of the call whose processing ended without errors; within one
\* call on a fresh processor the stats count them
BatchesWithoutErrors == bp_stats.successful_batches

C25_SuccessfulPlusFailedIsTotal ==
    (/\ bp_pc = "returned" /\ bp_cfg.op = "index" /\ ~bp_raised
     /\ bp_cfg.max_retries > 0)
        => bp_result.successful + bp_result.failed = bp_ndocs

\* the same for the calls in which every batch is submitted exactly once
C25_HoldsWithoutRetry ==
    (/\ bp_pc = "returned" /\ bp_cfg.op = "index" /\ ~bp_raised
     /\ bp_cfg.max_retries > 0 /\ bp_stats.total_retries = 0)
        => bp_result.successful + bp_result.failed = bp_ndocs

\* C30: after any sequence of completed process_bulk_index /
\* process_bulk_update / process_bulk_delete calls, interleaved with any
\* reset_stats calls, total_batches = successful_batches + failed_batches
\* and every counter is non-negative.
C30_StatsBalanced ==
    /\ bp_pc \in {"idle", "returned", "raised"} =>
          bp_stats.total_batches
              = bp_stats.successful_batches + bp_stats.failed_batches
    /\ \A f \in DOMAIN bp_stats : bp_stats[f] >= 0

\* the second call after a reset has returned, with a failed and a
\* successful batch
C30_Witness ==
    /\ bp_pc = "returned"
    /\ bp_calls = 2
    /\ bp_resets = 1
    /\ bp_stats.failed_batches = 1
    /\ bp_stats.successful_batches = 1
    /\ bp_stats.total_retries >= 1

\* C28: every entry stored in the table metadata cache equals the schema the
\* driver reports for that table, so the entry that survives a concurrent
\* population is equivalent to the one it overwrote, and later lookups of
\* that name return that schema.
C28_CacheEntryIsDriverSchema ==
    /\ tc_cache # 0 => tc_heap[tc_cache] = DriverColumns
    /\ tc_prev.set => tc_prev.columns = tc_heap[tc_cache]
    /\ \A t \in Threads :
          tc_ret[t].kind = "table" => tc_heap[tc_ret[t].id] = DriverColumns

\* the same when no reflection fails: every reflected table has its columns
C28_HoldsWhenReflectionSucceeds ==
    (\A i \in 1..Len(tc_heap) : tc_heap[i] = DriverColumns)
        => C28_CacheEntryIsDriverSchema

\* C29: ConnectionManager creates at most one engine per configuration key:
\* for any number of get_sync_engine calls with the same configuration,
\* including concurrent ones, the driver's engine constructor runs once and
\* every caller receives the same engine instance.
C29_OneEnginePerKey ==
    \A k \in Keys :
        /\ cm_created[k] <= 1
        /\ Cardinality(cm_given[k]) <= 1

\* the same for calls that do not overlap
C29_OneEnginePerKeyWithoutOverlap ==
    ~cm_overlap => C29_OneEnginePerKey

\* C5: an operation wrapped by retry_on_deadlock(max_retries) is invoked at
\* most max_retries times; it is re-invoked only after it raised a
\* deadlock/serialization or listed transient error; any other error
\* propagates at once, with no further attempt; and when the last allowed
\* attempt fails, that attempt's error propagates.
C5_RetryOnDeadlock ==
    /\ Len(rd_hist) <= rd_max
    /\ \A i \in 1..(Len(rd_hist) - 1) :
        rd_hist[i].kind = "error" /\ AnyIn(retryable_keywords, Lower(rd_hist[i].msg))
    /\ \A i \in 1..Len(rd_hist) :
        (rd_hist[i].kind = "error" /\ ~AnyIn(retryable_keywords, Lower(rd_hist[i].msg)))
            => (i = Len(rd_hist) /\ rd_pc = "raised" /\ rd_raised = rd_hist[i])
    /\ (Len(rd_hist) = rd_max /\ rd_max > 0 /\ rd_hist[rd_max].kind = "error")
            => (rd_pc = "raised" /\ rd_raised = rd_hist[rd_max])

\* three deadlocks in a row under max_retries = 3: the third one propagates
C5_Witness ==
    /\ rd_max >= 3
    /\ Len(rd_hist) = rd_max
    /\ \A i \in 1..Len(rd_hist) : rd_hist[i].kind = "error" /\ IsDeadlock(rd_hist[i])
    /\ rd_pc = "raised"
    /\ rd_raised = rd_hist[rd_max]

====
